---- MODULE Spec2Model ----
(***************************************************************************)
(* A model of the nibble-branching trie of hardly-trie.                    *)
(*                                                                         *)
(* The arena trie of src/src/trie.rs keeps its nodes in a SlotMap and      *)
(* links them by handles.  The store is modelled as a function from the    *)
(* live handles to nodes; a lookup of a handle outside its domain is the   *)
(* SlotMap lookup that returns None.  An Option is a sequence of length at *)
(* most one: None is <<>> and Some(x) is <<x>>.                            *)
(***************************************************************************)
EXTENDS Integers, Sequences, FiniteSets, TLC

\* Branching factor: Trie<K, T, 16>, two nibbles per byte.
N == 16

\* Longest key, in bytes, that the callers of the model pass.
MaxKeyLen == 2

\* Most keys the callers of the model keep stored at one time.
MaxStored == 2

\* The bytes keys are made of: 0x12 and 0x21.  Their paths branch at the
\* root (nibbles 1 and 2) and share no nibble at the same depth.
Bytes == {18, 33}

\* The values callers store.
Values == {1, 2}

None == <<>>

Some(x) == <<x>>

Keys == UNION {[1..n -> Bytes] : n \in 0..MaxKeyLen}

VARIABLES arena, root, len, stored, last, pre, trie_iter, yielded, enc,
          box_trie, lib_ret, tnode, child_iter, child_yielded, node_last

vars == <<arena, root, len, stored, last, pre, trie_iter, yielded, enc,
          box_trie, lib_ret, tnode, child_iter, child_yielded, node_last>>

\* The node that stands alone, its child iterator and what the caller has
\* got from them.
node_vars == <<tnode, child_iter, child_yielded, node_last>>

\* What the calls of the arena trie and of its iterator leave alone.
apart == <<enc, box_trie, lib_ret, node_vars>>

----------------------------------------------------------------------------
(* TrieNode                                                                *)

\* TrieNode::new(): no value, N empty child slots.
TrieNode_new == [value |-> None, next |-> [i \in 0..(N - 1) |-> None]]

\* The node of the arena trie links its children by handle.  Its accessors
\* child_key and child_remove follow the design's description of the node
\* (child(i), child_remove(i)); child_set is the slot fill of TrieNode with
\* a handle in the place of the boxed node.
\* child_key(i): the handle in slot i, if any.
child_key(node, index) == node.next[index]

\* A slot fill that puts the handle into slot i and into the slot after it.
child_set_twice(node, index, key) ==
    [node EXCEPT !.next[index] = Some(key), !.next[(index + 1) % N] = Some(key)]

\* child_set(i, handle): fill slot i.
child_set(node, index, key) == [node EXCEPT !.next[index] = Some(key)]

\* child_remove(i): empty slot i.
child_remove(node, index) == [node EXCEPT !.next[index] = None]

value(node) == node.value

\* A take that hands the value out and leaves it in the slot.
value_take_keeps(node) == [node |-> node, ret |-> node.value]

value_take(node) == [node |-> [node EXCEPT !.value = None], ret |-> node.value]

\* A replace that stores only into an empty slot.
value_replace_if_empty(node, val) ==
    [node |-> IF node.value = None THEN [node EXCEPT !.value = Some(val)] ELSE node,
     ret |-> node.value]

value_replace(node, val) ==
    [node |-> [node EXCEPT !.value = Some(val)], ret |-> node.value]

RECURSIVE has_child_loop(_, _)
has_child_loop(node, i) ==
    IF i >= N THEN FALSE
    ELSE IF child_key(node, i) # None THEN TRUE
    ELSE has_child_loop(node, i + 1)

has_child(node) == has_child_loop(node, 0)

RECURSIVE has_multiple_children_loop(_, _, _)
has_multiple_children_loop(node, i, count) ==
    IF i >= N THEN FALSE
    ELSE IF child_key(node, i) # None
         THEN IF count > 0 THEN TRUE
              ELSE has_multiple_children_loop(node, i + 1, count + 1)
         ELSE has_multiple_children_loop(node, i + 1, count)

has_multiple_children(node) == has_multiple_children_loop(node, 0, 0)

----------------------------------------------------------------------------
(* Path encoder                                                            *)

init_path(key) == <<>>

\* An encoder that pushes the low nibble of a byte before its high nibble.
RECURSIVE populate_path_low_first(_, _)
populate_path_low_first(key, path) ==
    IF key = <<>> THEN path
    ELSE LET byte == Head(key)
             high_byte == byte \div 16
             low_byte == byte % 16
         IN populate_path_low_first(Tail(key),
                Append(Append(path, low_byte), high_byte))

\* An encoder that masks the high nibble (byte & 0xF0) and does not shift it.
RECURSIVE populate_path_unshifted(_, _)
populate_path_unshifted(key, path) ==
    IF key = <<>> THEN path
    ELSE LET byte == Head(key)
             high_byte == byte - (byte % 16)
             low_byte == byte % 16
         IN populate_path_unshifted(Tail(key),
                Append(Append(path, high_byte), low_byte))

\* `for &byte in self.as_ref()`: high_byte = byte >> 4, low_byte =
\* byte & 0x0F, pushed in this order.  A byte is a u8, 0..255.
RECURSIVE populate_path(_, _)
populate_path(key, path) ==
    IF key = <<>> THEN path
    ELSE LET byte == Head(key)
             high_byte == byte \div 16
             low_byte == byte % 16
         IN populate_path(Tail(key), Append(Append(path, high_byte), low_byte))

build_path(key) == populate_path(key, init_path(key))

----------------------------------------------------------------------------
(* SlotMap                                                                 *)

\* SlotMap::insert hands out a handle that no live node has.  Handles are
\* opaque to the trie, which never compares or orders them, so any fresh
\* handle is a possible outcome; the model takes the one numbered after the
\* slot being filled (slot_number) when it is free, and the least free
\* number otherwise.  States that differ only by a renaming of the handles
\* then coincide.
RECURSIVE slot_number(_)
slot_number(prefix) ==
    IF prefix = <<>> THEN 0
    ELSE slot_number(SubSeq(prefix, 1, Len(prefix) - 1)) * (N + 1)
         + prefix[Len(prefix)] + 1

arena_new_key(ar, prefix) ==
    IF slot_number(prefix) \notin DOMAIN ar THEN slot_number(prefix)
    ELSE CHOOSE h \in 0..Cardinality(DOMAIN ar) : h \notin DOMAIN ar

arena_insert(ar, key, node) ==
    [h \in (DOMAIN ar) \cup {key} |-> IF h = key THEN node ELSE ar[h]]

arena_remove(ar, key) == [h \in (DOMAIN ar) \ {key} |-> ar[h]]

----------------------------------------------------------------------------
(* Trie::get, Trie::get_mut                                                *)

\* A walk that stops at the deepest node it finds when a child slot on the
\* path is empty.
RECURSIVE get_walk_to_deepest(_, _, _, _)
get_walk_to_deepest(ar, current_key, path, i) ==
    IF i > Len(path) THEN Some(current_key)
    ELSE IF current_key \notin DOMAIN ar THEN None
    ELSE LET ck == child_key(ar[current_key], path[i])
         IN IF ck = None THEN Some(current_key)
            ELSE get_walk_to_deepest(ar, ck[1], path, i + 1)

RECURSIVE get_walk(_, _, _, _)
get_walk(ar, current_key, path, i) ==
    IF i > Len(path) THEN Some(current_key)
    ELSE IF current_key \notin DOMAIN ar THEN None
    ELSE LET ck == child_key(ar[current_key], path[i])
         IN IF ck = None THEN None ELSE get_walk(ar, ck[1], path, i + 1)

get(ar, rt, key) ==
    LET end == get_walk(ar, rt, build_path(key), 1)
    IN IF end = None THEN None
       ELSE IF end[1] \notin DOMAIN ar THEN None
       ELSE value(ar[end[1]])

\* A get_mut whose reference is to the value slot of the root.
get_mut_root_slot(ar, rt, key, write) ==
    LET end == get_walk(ar, rt, build_path(key), 1)
        ret == IF end = None THEN None
               ELSE IF end[1] \notin DOMAIN ar THEN None
               ELSE value(ar[end[1]])
    IN [arena |-> IF ret # None /\ write # None
                  THEN [ar EXCEPT ![rt].value = write]
                  ELSE ar,
        ret |-> ret]

\* get_mut returns a reference to the terminal's value; `write` is what the
\* caller stores through it (None: the caller only reads).
get_mut(ar, rt, key, write) ==
    LET end == get_walk(ar, rt, build_path(key), 1)
        ret == IF end = None THEN None
               ELSE IF end[1] \notin DOMAIN ar THEN None
               ELSE value(ar[end[1]])
    IN [arena |-> IF ret # None /\ write # None
                  THEN [ar EXCEPT ![end[1]].value = write]
                  ELSE ar,
        ret |-> ret]

----------------------------------------------------------------------------
(* Trie::insert                                                            *)

\* A walk that makes a new node for every nibble, linked over whatever the
\* slot held.
RECURSIVE insert_walk_always_new(_, _, _, _)
insert_walk_always_new(ar, current_key, path, i) ==
    IF i > Len(path) THEN [arena |-> ar, current_key |-> current_key, panic |-> FALSE]
    ELSE IF current_key \notin DOMAIN ar
         THEN [arena |-> ar, current_key |-> current_key, panic |-> TRUE]
    ELSE LET child_index == path[i]
             new_key == arena_new_key(ar, SubSeq(path, 1, i))
             ar1 == arena_insert(ar, new_key, TrieNode_new)
             ar2 == [ar1 EXCEPT ![current_key] =
                         child_set(ar1[current_key], child_index, new_key)]
         IN insert_walk_always_new(ar2, new_key, path, i + 1)

\* The loop of insert: follow the path from current_key, making a node for
\* every empty slot on the way.  panic: an unwrap of a failed lookup.
RECURSIVE insert_walk(_, _, _, _)
insert_walk(ar, current_key, path, i) ==
    IF i > Len(path) THEN [arena |-> ar, current_key |-> current_key, panic |-> FALSE]
    ELSE IF current_key \notin DOMAIN ar
         THEN [arena |-> ar, current_key |-> current_key, panic |-> TRUE]
    ELSE LET child_index == path[i]
             ck == child_key(ar[current_key], child_index)
         IN IF ck # None
            THEN insert_walk(ar, ck[1], path, i + 1)
            ELSE LET new_key == arena_new_key(ar, SubSeq(path, 1, i))
                     ar1 == arena_insert(ar, new_key, TrieNode_new)
                     ar2 == [ar1 EXCEPT ![current_key] =
                                 child_set(ar1[current_key], child_index, new_key)]
                 IN insert_walk(ar2, new_key, path, i + 1)

\* A length that grows on every insert.
len_after_insert_always(ln, current_node) == ln + 1

\* `if current_node.value().is_none() { self.len += 1; }`
len_after_insert(ln, current_node) ==
    IF value(current_node) = None THEN ln + 1 ELSE ln

insert(ar, rt, ln, key, val) ==
    LET w == insert_walk(ar, rt, build_path(key), 1)
    IN IF w.panic \/ w.current_key \notin DOMAIN w.arena
       THEN [arena |-> w.arena, len |-> ln, ret |-> None, panic |-> TRUE]
       ELSE LET current_node == w.arena[w.current_key]
                r == value_replace(current_node, val)
            IN [arena |-> [w.arena EXCEPT ![w.current_key] = r.node],
                len |-> len_after_insert(ln, current_node),
                ret |-> r.ret,
                panic |-> FALSE]

----------------------------------------------------------------------------
(* Trie::delete                                                            *)

\* The navigation loop: the handles visited from the root to the terminal,
\* or None as soon as a lookup or a child slot comes up empty.
RECURSIVE delete_walk(_, _, _, _, _)
delete_walk(ar, current_key, path, i, node_path) ==
    IF i > Len(path) THEN Some(node_path)
    ELSE IF current_key \notin DOMAIN ar THEN None
    ELSE LET ck == child_key(ar[current_key], path[i])
         IN IF ck = None THEN None
            ELSE delete_walk(ar, ck[1], path, i + 1, Append(node_path, ck[1]))

\* A search for the cleanup point that passes over the values of ancestors.
RECURSIVE find_cleanup_index_no_value(_, _, _)
find_cleanup_index_no_value(ar, node_path, i) ==
    LET node_key == node_path[i + 1]
    IN IF node_key \notin DOMAIN ar THEN None
       ELSE LET node == ar[node_key]
                has_value == IF i = Len(node_path) - 1
                             THEN has_child(node)
                             ELSE has_multiple_children(node)
            IN IF has_value THEN Some(i)
               ELSE IF i = 0 THEN Some(0)
               ELSE find_cleanup_index_no_value(ar, node_path, i - 1)

\* A scan that asks of the terminal what it asks of the nodes above it: a
\* terminal with one child is not a keep point.
RECURSIVE find_cleanup_index_terminal_as_ancestor(_, _, _)
find_cleanup_index_terminal_as_ancestor(ar, node_path, i) ==
    LET node_key == node_path[i + 1]
    IN IF node_key \notin DOMAIN ar THEN None
       ELSE LET node == ar[node_key]
                has_value == value(node) # None \/ has_multiple_children(node)
            IN IF has_value /\ i < Len(node_path) - 1 THEN Some(i)
               ELSE IF i = 0 THEN Some(0)
               ELSE find_cleanup_index_terminal_as_ancestor(ar, node_path, i - 1)

\* The loop that looks for the cleanup point, from the terminal (index
\* Len(node_path) - 1) towards the root (index 0).  node_path[i + 1] is the
\* source's node_path[i].  None when a store lookup fails.
RECURSIVE find_cleanup_index(_, _, _)
find_cleanup_index(ar, node_path, i) ==
    LET node_key == node_path[i + 1]
    IN IF node_key \notin DOMAIN ar THEN None
       ELSE LET node == ar[node_key]
                has_value == IF i = Len(node_path) - 1
                             THEN has_child(node)
                             ELSE value(node) # None \/ has_multiple_children(node)
            IN IF has_value THEN Some(i)
               ELSE IF i = 0 THEN Some(0)
               ELSE find_cleanup_index(ar, node_path, i - 1)

RECURSIVE push_children(_, _, _)
push_children(node, i, stack) ==
    IF i >= N THEN stack
    ELSE IF child_key(node, i) # None
         THEN push_children(node, i + 1, Append(stack, child_key(node, i)[1]))
         ELSE push_children(node, i + 1, stack)

RECURSIVE collect_to_remove(_, _, _)
collect_to_remove(ar, stack, to_remove) ==
    IF stack = <<>> THEN to_remove
    ELSE LET key == stack[Len(stack)]
             rest == SubSeq(stack, 1, Len(stack) - 1)
         IN IF key \in DOMAIN ar
            THEN collect_to_remove(ar, push_children(ar[key], 0, rest),
                                   Append(to_remove, key))
            ELSE collect_to_remove(ar, rest, to_remove)

RECURSIVE remove_all(_, _, _)
remove_all(ar, to_remove, i) ==
    IF i > Len(to_remove) THEN ar
    ELSE remove_all(IF to_remove[i] \in DOMAIN ar
                    THEN arena_remove(ar, to_remove[i]) ELSE ar,
                    to_remove, i + 1)

\* A cleanup that removes the start node and none of its descendants.
cleanup_unreachable_nodes_shallow(ar, start_key) ==
    IF start_key \in DOMAIN ar THEN arena_remove(ar, start_key) ELSE ar

cleanup_unreachable_nodes(ar, start_key) ==
    remove_all(ar, collect_to_remove(ar, <<start_key>>, <<>>), 1)

\* A cleanup step that frees the dead nodes and leaves the anchor's slot as
\* it was.
delete_cleanup_no_detach(ar, path, node_path, cleanup_index) ==
    IF cleanup_index = None THEN [arena |-> ar, ok |-> TRUE]
    ELSE LET cleanup_idx == cleanup_index[1]
         IN IF ~(cleanup_idx < Len(path)) THEN [arena |-> ar, ok |-> TRUE]
            ELSE LET parent_key == node_path[cleanup_idx + 1]
                     child_index == path[cleanup_idx + 1]
                 IN IF parent_key \notin DOMAIN ar
                    THEN [arena |-> ar, ok |-> FALSE]
                    ELSE LET ck == child_key(ar[parent_key], child_index)
                         IN IF ck = None THEN [arena |-> ar, ok |-> FALSE]
                            ELSE [arena |-> cleanup_unreachable_nodes(ar, ck[1]),
                                  ok |-> TRUE]

\* A cleanup step that frees the anchor along with the dead chain below it.
delete_cleanup_from_anchor(ar, path, node_path, cleanup_index) ==
    IF cleanup_index = None THEN [arena |-> ar, ok |-> TRUE]
    ELSE LET cleanup_idx == cleanup_index[1]
         IN IF ~(cleanup_idx < Len(path)) THEN [arena |-> ar, ok |-> TRUE]
            ELSE LET parent_key == node_path[cleanup_idx + 1]
                     child_index == path[cleanup_idx + 1]
                 IN IF parent_key \notin DOMAIN ar
                    THEN [arena |-> ar, ok |-> FALSE]
                    ELSE LET ck == child_key(ar[parent_key], child_index)
                         IN IF ck = None THEN [arena |-> ar, ok |-> FALSE]
                            ELSE [arena |-> cleanup_unreachable_nodes(ar, parent_key),
                                  ok |-> TRUE]

\* A cleanup step that looks for the chain in the anchor's slot of the last
\* nibble of the path.
delete_cleanup_wrong_slot(ar, path, node_path, cleanup_index) ==
    IF cleanup_index = None THEN [arena |-> ar, ok |-> TRUE]
    ELSE LET cleanup_idx == cleanup_index[1]
         IN IF ~(cleanup_idx < Len(path)) THEN [arena |-> ar, ok |-> TRUE]
            ELSE LET parent_key == node_path[cleanup_idx + 1]
                     child_index == path[Len(path)]
                 IN IF parent_key \notin DOMAIN ar
                    THEN [arena |-> ar, ok |-> FALSE]
                    ELSE LET ck == child_key(ar[parent_key], child_index)
                         IN IF ck = None THEN [arena |-> ar, ok |-> FALSE]
                            ELSE LET ar1 == [ar EXCEPT ![parent_key] =
                                                child_remove(ar[parent_key], child_index)]
                                 IN [arena |-> cleanup_unreachable_nodes(ar1, ck[1]),
                                     ok |-> TRUE]

\* A cleanup step that does nothing.
delete_cleanup_skipped(ar, path, node_path, cleanup_index) ==
    [arena |-> ar, ok |-> TRUE]

\* The cleanup step, which runs after the value was taken.
\* ok is FALSE when one of its lookups fails and delete returns None.
delete_cleanup(ar, path, node_path, cleanup_index) ==
    IF cleanup_index = None THEN [arena |-> ar, ok |-> TRUE]
    ELSE LET cleanup_idx == cleanup_index[1]
         IN IF ~(cleanup_idx < Len(path)) THEN [arena |-> ar, ok |-> TRUE]
            ELSE LET parent_key == node_path[cleanup_idx + 1]
                     child_index == path[cleanup_idx + 1]
                 IN IF parent_key \notin DOMAIN ar
                    THEN [arena |-> ar, ok |-> FALSE]
                    ELSE LET ck == child_key(ar[parent_key], child_index)
                         IN IF ck = None THEN [arena |-> ar, ok |-> FALSE]
                            ELSE LET ar1 == [ar EXCEPT ![parent_key] =
                                                child_remove(ar[parent_key], child_index)]
                                 IN [arena |-> cleanup_unreachable_nodes(ar1, ck[1]),
                                     ok |-> TRUE]

\* A guard that lets a terminal without a value through.
delete_target_missing_unchecked(ar, current_key) == current_key \notin DOMAIN ar

\* `let target_node = self.arena.get(current_key)?;
\*  if target_node.value().is_none() { return None; }`
delete_target_missing(ar, current_key) ==
    \/ current_key \notin DOMAIN ar
    \/ value(ar[current_key]) = None

delete(ar, rt, ln, key) ==
    LET unchanged == [arena |-> ar, len |-> ln, ret |-> None, panic |-> FALSE]
        path == build_path(key)
        walked == delete_walk(ar, rt, path, 1, <<rt>>)
    IN IF walked = None THEN unchanged
       ELSE LET node_path == walked[1]
                current_key == node_path[Len(node_path)]
            IN IF delete_target_missing(ar, current_key) THEN unchanged
               ELSE LET cleanup_index ==
                            find_cleanup_index(ar, node_path, Len(node_path) - 1)
                    IN IF cleanup_index = None THEN unchanged
                       ELSE LET t == value_take(ar[current_key])
                                ar1 == [ar EXCEPT ![current_key] = t.node]
                                c == delete_cleanup(ar1, path, node_path, cleanup_index)
                            IN IF ln = 0
                               THEN [arena |-> ar1, len |-> ln, ret |-> None,
                                     panic |-> TRUE]
                               ELSE [arena |-> c.arena, len |-> ln - 1,
                                     ret |-> IF c.ok THEN t.ret ELSE None,
                                     panic |-> FALSE]

\* Trie::is_empty
is_empty(ln) == ln = 0

----------------------------------------------------------------------------
(* TrieIter                                                                *)
(*                                                                         *)
(* An item is <<path, value>>; the reference to the value is the value,    *)
(* since the trie cannot change while the iterator borrows it.             *)

RECURSIVE collect_items(_, _, _, _)
RECURSIVE collect_children(_, _, _, _, _)

\* A walk that records the value of a node after the values below it.
collect_items_value_last(ar, node_key, path, items) ==
    IF node_key \notin DOMAIN ar THEN items
    ELSE LET node == ar[node_key]
             below == collect_children(ar, node, 0, path, items)
         IN IF value(node) # None
            THEN Append(below, <<path, value(node)[1]>>)
            ELSE below

\* A walk that records the value of a node only if it has no child.
collect_items_leaves_only(ar, node_key, path, items) ==
    IF node_key \notin DOMAIN ar THEN items
    ELSE LET node == ar[node_key]
         IN collect_children(ar, node, 0, path,
                IF value(node) # None /\ ~has_child(node)
                THEN Append(items, <<path, value(node)[1]>>)
                ELSE items)

\* TrieIter::collect_items: the value of the node, if it has one, then the
\* subtrees of its children.
collect_items(ar, node_key, path, items) ==
    IF node_key \notin DOMAIN ar THEN items
    ELSE LET node == ar[node_key]
         IN collect_children(ar, node, 0, path,
                IF value(node) # None
                THEN Append(items, <<path, value(node)[1]>>)
                ELSE items)

\* `for i in 0..N { if let Some(child_key) = node.child_key(i) { ... } }`,
\* from slot i on: the loop passes over the empty slots up to the next
\* filled slot j and visits the child there; path.push(j) and path.pop()
\* enclose the visit.
collect_children(ar, node, i, path, items) ==
    LET filled == {j \in i..(N - 1) : child_key(node, j) # None}
    IN IF filled = {} THEN items
       ELSE LET j == CHOOSE j \in filled : \A m \in filled : j <= m
            IN collect_children(ar, node, j + 1, path,
                   collect_items(ar, child_key(node, j)[1], Append(path, j), items))

\* TrieIter::new
TrieIter_new(ar, rt) ==
    LET items == collect_items(ar, rt, <<>>, <<>>)
    IN [items |-> items,
        front_index |-> 0,
        back_index |-> IF items = <<>> THEN 0 ELSE Len(items) - 1]

\* Trie::iter
iter(ar, rt) == TrieIter_new(ar, rt)

\* `self.front_index > self.back_index || self.items.is_empty()`
exhausted(it) == it.front_index > it.back_index \/ it.items = <<>>

\* Iterator::next.  items[i + 1] is the source's items[i].
next(it) ==
    IF exhausted(it) THEN [iter |-> it, ret |-> None]
    ELSE [iter |-> [it EXCEPT !.front_index = it.front_index + 1],
          ret |-> Some(it.items[it.front_index + 1])]

\* A size_hint that leaves out the element at back_index.
size_hint_open_end(it) ==
    LET remaining == IF exhausted(it) THEN 0
                     ELSE it.back_index - it.front_index
    IN <<remaining, Some(remaining)>>

\* Iterator::size_hint
size_hint(it) ==
    LET remaining == IF exhausted(it) THEN 0
                     ELSE it.back_index - it.front_index + 1
    IN <<remaining, Some(remaining)>>

\* A next_back that stops at index 0 and does not mark the iterator as
\* exhausted.
next_back_saturating(it) ==
    IF exhausted(it) THEN [iter |-> it, ret |-> None]
    ELSE [iter |-> IF it.back_index = 0 THEN it
                   ELSE [it EXCEPT !.back_index = it.back_index - 1],
          ret |-> Some(it.items[it.back_index + 1])]

\* DoubleEndedIterator::next_back
next_back(it) ==
    IF exhausted(it) THEN [iter |-> it, ret |-> None]
    ELSE [iter |-> IF it.back_index = 0
                   THEN [it EXCEPT !.front_index = 1]
                   ELSE [it EXCEPT !.back_index = it.back_index - 1],
          ret |-> Some(it.items[it.back_index + 1])]

----------------------------------------------------------------------------
(* The Box-owned trie of src/src/lib.rs                                    *)
(*                                                                         *)
(* A node owns its children: a child slot holds the child node itself.     *)
(* The operations walk a key byte by byte, the high nibble of a byte and   *)
(* then its low nibble.  An operation that changes the trie gives the node *)
(* it was called on as it is afterwards.                                   *)

\* lib.rs TrieNode::new
lib_TrieNode_new == [value |-> None, next |-> [i \in 0..15 |-> None]]

\* lib.rs Trie::new
lib_Trie_new == [len |-> 0, root |-> lib_TrieNode_new]

\* The loop of lib.rs Trie::get, at current_node with `bytes` left.
RECURSIVE lib_get_loop(_, _)
lib_get_loop(current_node, bytes) ==
    IF bytes = <<>> THEN current_node.value
    ELSE LET high_byte == bytes[1] \div 16
             low_byte == bytes[1] % 16
         IN IF current_node.next[high_byte] = None THEN None
            ELSE LET high_node == current_node.next[high_byte][1]
                 IN IF high_node.next[low_byte] = None THEN None
                    ELSE lib_get_loop(high_node.next[low_byte][1], Tail(bytes))

\* lib.rs Trie::get
lib_get(trie, key) == lib_get_loop(trie.root, key)

\* The loop of lib.rs Trie::get_mut; `write` is what the caller stores
\* through the reference returned (None: the caller only reads).
RECURSIVE lib_get_mut_loop(_, _, _)
lib_get_mut_loop(current_node, bytes, write) ==
    IF bytes = <<>>
    THEN [node |-> IF current_node.value # None /\ write # None
                   THEN [current_node EXCEPT !.value = write]
                   ELSE current_node,
          ret |-> current_node.value]
    ELSE LET high_byte == bytes[1] \div 16
             low_byte == bytes[1] % 16
         IN IF current_node.next[high_byte] = None
            THEN [node |-> current_node, ret |-> None]
            ELSE LET high_node == current_node.next[high_byte][1]
                 IN IF high_node.next[low_byte] = None
                    THEN [node |-> current_node, ret |-> None]
                    ELSE LET r == lib_get_mut_loop(high_node.next[low_byte][1],
                                                   Tail(bytes), write)
                         IN [node |-> [current_node EXCEPT !.next[high_byte] =
                                          Some([high_node EXCEPT !.next[low_byte] =
                                                   Some(r.node)])],
                             ret |-> r.ret]

\* lib.rs Trie::get_mut
lib_get_mut(trie, key, write) ==
    LET r == lib_get_mut_loop(trie.root, key, write)
    IN [trie |-> [trie EXCEPT !.root = r.node], ret |-> r.ret]

\* The loop of lib.rs Trie::delete: value_take() at the terminal, None at the
\* first empty slot.
RECURSIVE lib_delete_loop(_, _)
lib_delete_loop(current_node, bytes) ==
    IF bytes = <<>>
    THEN [node |-> [current_node EXCEPT !.value = None],
          ret |-> current_node.value]
    ELSE LET high_byte == bytes[1] \div 16
             low_byte == bytes[1] % 16
         IN IF current_node.next[high_byte] = None
            THEN [node |-> current_node, ret |-> None]
            ELSE LET high_node == current_node.next[high_byte][1]
                 IN IF high_node.next[low_byte] = None
                    THEN [node |-> current_node, ret |-> None]
                    ELSE LET r == lib_delete_loop(high_node.next[low_byte][1],
                                                  Tail(bytes))
                         IN [node |-> [current_node EXCEPT !.next[high_byte] =
                                          Some([high_node EXCEPT !.next[low_byte] =
                                                   Some(r.node)])],
                             ret |-> r.ret]

\* A delete that hands the value out and leaves it stored.
lib_delete_value_kept(trie, key) ==
    [trie |-> trie, ret |-> lib_delete_loop(trie.root, key).ret]

\* lib.rs Trie::delete.  The function does not touch self.len.
lib_delete(trie, key) ==
    LET r == lib_delete_loop(trie.root, key)
    IN [trie |-> [trie EXCEPT !.root = r.node], ret |-> r.ret]

\* `if current_node.next()[i].is_none() { ...insert(Box::new(TrieNode::new())) }
\*  else { ...as_mut().unwrap() }`
lib_child_or_new(node, i) ==
    IF node.next[i] = None THEN lib_TrieNode_new ELSE node.next[i][1]

\* The loop of lib.rs Trie::insert: value_mut().replace(val) at the terminal.
RECURSIVE lib_insert_loop(_, _, _)
lib_insert_loop(current_node, bytes, val) ==
    IF bytes = <<>>
    THEN [node |-> [current_node EXCEPT !.value = Some(val)],
          ret |-> current_node.value]
    ELSE LET high_byte == bytes[1] \div 16
             low_byte == bytes[1] % 16
             high_node == lib_child_or_new(current_node, high_byte)
             r == lib_insert_loop(lib_child_or_new(high_node, low_byte),
                                  Tail(bytes), val)
         IN [node |-> [current_node EXCEPT !.next[high_byte] =
                          Some([high_node EXCEPT !.next[low_byte] = Some(r.node)])],
             ret |-> r.ret]

\* lib.rs Trie::insert: `if ret_val.is_none() { self.len += 1; }`
lib_insert(trie, key, val) ==
    LET r == lib_insert_loop(trie.root, key, val)
    IN [trie |-> [len |-> IF r.ret = None THEN trie.len + 1 ELSE trie.len,
                  root |-> r.node],
        ret |-> r.ret]

\* lib.rs Trie::len
lib_len(trie) == trie.len

\* lib.rs Trie::is_empty
lib_is_empty(trie) == trie.len = 0

----------------------------------------------------------------------------
(* TrieNode with boxed children, and its child iterator                    *)
(*                                                                         *)
(* src/src/trie_node.rs builds in two ways.  With the feature `bitmaps`    *)
(* the node carries child_bits, a Bitmap<64> with one bit per child slot,  *)
(* and every operation that has a `#[cfg(feature = "bitmaps")]` branch     *)
(* takes it when N <= BITMAP_SIZE; without the feature the field is not    *)
(* there and the loops over the slots run.  The operations below take the  *)
(* feature as their last argument `bitmaps`.  A Bitmap is the set of the   *)
(* indexes of its true bits.                                               *)

\* const BITMAP_SIZE: usize = 64
BITMAP_SIZE == 64

\* Most children the caller of the model gives a node.
MaxChildren == 2

\* `index: usize`.  A usize is as wide as a pointer of the target, 16 bits
\* at the least; the width taken here is that least one, and any wider one
\* wraps 0 - 1 to a number further above N.
usize_BITS == 16

\* a - b of two usize where overflow is not trapped.
usize_wrapping_sub(a, b) == (a - b) % (2 ^ usize_BITS)

\* Bitmap::new(): every bit false.
Bitmap_new == {}

\* Bitmap::set(index, true)
Bitmap_set(bits, index) == bits \cup {index}

\* Bitmap::is_empty(): no bit is true.
Bitmap_is_empty(bits) == bits = {}

\* Bitmap::len(): the number of true bits.
Bitmap_len(bits) == Cardinality(bits)

\* Bitmap::first_index(): the index of the first true bit.
Bitmap_first_index(bits) ==
    IF bits = {} THEN None
    ELSE Some(CHOOSE i \in bits : \A j \in bits : i <= j)

\* Bitmap::last_index(): the index of the last true bit.
Bitmap_last_index(bits) ==
    IF bits = {} THEN None
    ELSE Some(CHOOSE i \in bits : \A j \in bits : j <= i)

\* Bitmap::next_index(index): the index of the first true bit after index.
Bitmap_next_index(bits, index) == Bitmap_first_index({i \in bits : i > index})

\* Bitmap::prev_index(index): the index of the last true bit before index.
Bitmap_prev_index(bits, index) == Bitmap_last_index({i \in bits : i < index})

\* TrieNode::new() of either build.
TrieNode_new_build(bitmaps) ==
    IF bitmaps
    THEN [child_bits |-> Bitmap_new, value |-> None,
          next |-> [i \in 0..(N - 1) |-> None]]
    ELSE TrieNode_new

\* child(i): `self.next[index].as_deref()`
child(node, index) == node.next[index]

\* has_child() of either build.
has_child_build(node, bitmaps) ==
    IF bitmaps /\ N <= BITMAP_SIZE
    THEN ~Bitmap_is_empty(node.child_bits)
    ELSE has_child(node)

\* A bitmap branch that asks for more than two true bits.
has_multiple_children_build_above_two(node, bitmaps) ==
    IF bitmaps /\ N <= BITMAP_SIZE
    THEN Bitmap_len(node.child_bits) > 2
    ELSE has_multiple_children(node)

\* has_multiple_children() of either build.
has_multiple_children_build(node, bitmaps) ==
    IF bitmaps /\ N <= BITMAP_SIZE
    THEN Bitmap_len(node.child_bits) > 1
    ELSE has_multiple_children(node)

\* child_set(index, node) of either build: the bit first, then
\* `self.next[index].insert(Box::new(node))`.
child_set_build(node, index, boxed, bitmaps) ==
    LET marked == IF bitmaps /\ N <= BITMAP_SIZE
                  THEN [node EXCEPT !.child_bits = Bitmap_set(@, index)]
                  ELSE node
    IN child_set(marked, index, boxed)

\* The iterator borrows its node; the model keeps `moved` and `index` and
\* hands the node to each call.
\* child_iter_from(index)
child_iter_from(node, index) == [moved |-> FALSE, index |-> index]

\* `impl IntoIterator for &TrieNode`: into_iter()
into_iter(node) == [moved |-> FALSE, index |-> 0]

\* `while i < N { ... i += 1 }` of next()
RECURSIVE child_iter_next_loop(_, _, _)
child_iter_next_loop(it, node, i) ==
    IF i < N
    THEN IF child(node, i) # None
         THEN [iter |-> [moved |-> TRUE, index |-> i], ret |-> child(node, i)]
         ELSE child_iter_next_loop(it, node, i + 1)
    ELSE [iter |-> it, ret |-> None]

\* A next() whose loop steps past `index` before it looks, moved or not.
child_iter_next_steps_first(it, node, bitmaps) ==
    IF bitmaps /\ N <= BITMAP_SIZE
    THEN LET my_index_opt == Bitmap_next_index(node.child_bits, it.index)
         IN IF my_index_opt # None
            THEN [iter |-> [moved |-> TRUE, index |-> my_index_opt[1]],
                  ret |-> child(node, my_index_opt[1])]
            ELSE [iter |-> it, ret |-> None]
    ELSE child_iter_next_loop(it, node, it.index + 1)

\* TrieNodeChildIterator::next() of either build.
child_iter_next(it, node, bitmaps) ==
    IF bitmaps /\ N <= BITMAP_SIZE
    THEN LET my_index_opt ==
                 IF ~it.moved /\ it.index = 0
                 THEN Bitmap_first_index(node.child_bits)
                 ELSE Bitmap_next_index(node.child_bits, it.index)
         IN IF my_index_opt # None
            THEN [iter |-> [moved |-> TRUE, index |-> my_index_opt[1]],
                  ret |-> child(node, my_index_opt[1])]
            ELSE [iter |-> it, ret |-> None]
    ELSE LET i == IF it.moved \/ it.index # 0 THEN it.index + 1 ELSE it.index
         IN child_iter_next_loop(it, node, i)

\* `while i > 0 { ... i -= 1 }` of next_back().  `self.node.child(i)` reads
\* next[i], and an index outside the array panics.  The `if i == 0 { break }`
\* inside the loop is never taken: the loop runs only while i > 0.
RECURSIVE child_iter_next_back_loop(_, _, _)
child_iter_next_back_loop(it, node, i) ==
    IF i > 0
    THEN IF i >= N
         THEN [iter |-> it, ret |-> None, panic |-> "index out of bounds"]
         ELSE IF child(node, i) # None
              THEN [iter |-> [moved |-> TRUE, index |-> i],
                    ret |-> child(node, i), panic |-> "none"]
              ELSE child_iter_next_back_loop(it, node, i - 1)
    ELSE [iter |-> it, ret |-> None, panic |-> "none"]

\* TrieNodeChildIterator::next_back() of either build.  `start` is the i
\* the loop starts from, where one is computed.  `self.index - 1` with
\* index 0 panics where overflow is trapped (overflow_checks, the default
\* of a debug build) and wraps where it is not.
child_iter_next_back(it, node, bitmaps, overflow_checks) ==
    IF bitmaps /\ N <= BITMAP_SIZE
    THEN LET my_index_opt ==
                 IF ~it.moved /\ it.index = 0
                 THEN Bitmap_last_index(node.child_bits)
                 ELSE Bitmap_prev_index(node.child_bits, it.index)
         IN IF my_index_opt # None
            THEN [iter |-> [moved |-> TRUE, index |-> my_index_opt[1]],
                  ret |-> child(node, my_index_opt[1]),
                  panic |-> "none", start |-> None]
            ELSE [iter |-> it, ret |-> None, panic |-> "none", start |-> None]
    ELSE IF ~it.moved /\ it.index = 0
         THEN LET r == child_iter_next_back_loop(it, node, N - 1)
              IN [iter |-> r.iter, ret |-> r.ret, panic |-> r.panic,
                  start |-> Some(N - 1)]
         ELSE IF it.index < 1 /\ overflow_checks
              THEN [iter |-> it, ret |-> None,
                    panic |-> "attempt to subtract with overflow",
                    start |-> None]
              ELSE LET i == usize_wrapping_sub(it.index, 1)
                       r == child_iter_next_back_loop(it, node, i)
                   IN [iter |-> r.iter, ret |-> r.ret, panic |-> r.panic,
                       start |-> Some(i)]

----------------------------------------------------------------------------
(***************************************************************************)
(* The trie and its one caller                                             *)
(*                                                                         *)
(* The caller makes one call at a time.  `last` holds the call that has    *)
(* just returned and what it returned, `pre` what the call started from;   *)
(* the caller drops the result (and with it the borrow a returned          *)
(* reference holds) before it makes the next call.                         *)
(*                                                                         *)
(* `stored` is the caller's own account of what it has put into the trie   *)
(* and not taken out again: for each key the value it last stored under    *)
(* it, if any.  No operation of the trie reads it.                         *)
(*                                                                         *)
(* Spec records the whole call and the store it started from.  SpecStore   *)
(* runs the same calls and records less of them: not the key, and of the   *)
(* store the call started from only its sizes.                             *)
(***************************************************************************)

NoCall == [op |-> "none", key |-> <<>>, val |-> None, ret |-> None, panic |-> FALSE]

NoPre == [arena |-> <<>>, len |-> 0, nodes |-> 0, stored |-> <<>>]

\* What is recorded of a call: all of it, or all but the key.
Call(c, whole) == IF whole THEN c ELSE [c EXCEPT !.key = <<>>]

\* What is recorded of the trie a call started from: its store, or only the
\* sizes of it.
Pre(ar, ln, whole) ==
    [arena |-> IF whole THEN ar ELSE <<>>, len |-> ln,
     nodes |-> Cardinality(DOMAIN ar),
     stored |-> IF whole THEN stored ELSE <<>>]

\* The caller has stored nothing.
NothingStored == [k \in Keys |-> None]

\* The caller holds no iterator.
NoIter == None

\* What the caller has got from its iterator: the items next() gave it and
\* the items next_back() gave it, each in the order they came, and the last
\* call with its result.
NotYielded ==
    [front |-> <<>>, back |-> <<>>, call |-> "none", ret |-> None, hint |-> <<>>]

\* Two keys whose paths have not been built yet.
NotEncoded(a, b) == [a |-> a, b |-> b, pa |-> None, pb |-> None]

\* The node that stands alone, new, as each build has it.
NewNodes ==
    [plain |-> TrieNode_new_build(FALSE), bitmaps |-> TrieNode_new_build(TRUE)]

\* The caller holds no child iterator.
NoChildIter == None

\* What the caller has got from a child iterator it has called one way
\* only: the children next() or next_back() gave it, in the order they
\* came, and whether a None has come.  Nothing is kept once both kinds of
\* call have been made.
NoChildYielded ==
    [calls |-> "none", plain |-> <<>>, bitmaps |-> <<>>,
     ended |-> [plain |-> FALSE, bitmaps |-> FALSE]]

\* The last call on the node or on its child iterator: its argument, what
\* it returned in each build, the iterator it started from, and in the
\* build without the bitmap the index next_back began its loop at and the
\* panic it ended in.
NoNodeCall ==
    [op |-> "none", index |-> None, ret |-> [plain |-> None, bitmaps |-> None],
     before |-> None, start |-> None, panic |-> "none"]

\* Trie::new(): the store holds the root alone.
Init ==
    /\ root = arena_new_key(<<>>, <<>>)
    /\ arena = arena_insert(<<>>, arena_new_key(<<>>, <<>>), TrieNode_new)
    /\ len = 0
    /\ stored = NothingStored
    /\ last = NoCall
    /\ pre = NoPre
    /\ trie_iter = NoIter
    /\ yielded = NotYielded
    /\ enc = NotEncoded(<<>>, <<>>)
    /\ box_trie = lib_Trie_new
    /\ lib_ret = None
    /\ tnode = NewNodes
    /\ child_iter = NoChildIter
    /\ child_yielded = NoChildYielded
    /\ node_last = NoNodeCall

InsertCall(k, v, whole) ==
    /\ last = NoCall
    /\ len < MaxStored \/ get(arena, root, k) # None
    /\ LET r == insert(arena, root, len, k, v)
       IN /\ arena' = r.arena
          /\ len' = r.len
          /\ last' = Call([op |-> "insert", key |-> k, val |-> Some(v),
                           ret |-> r.ret, panic |-> r.panic], whole)
          /\ stored' = IF r.panic THEN stored
                        ELSE [stored EXCEPT ![k] = Some(v)]
    /\ pre' = Pre(arena, len, whole)
    /\ UNCHANGED <<root, trie_iter, yielded>>
    /\ UNCHANGED apart

DeleteCall(k, whole) ==
    /\ last = NoCall
    /\ LET r == delete(arena, root, len, k)
       IN /\ arena' = r.arena
          /\ len' = r.len
          /\ last' = Call([op |-> "delete", key |-> k, val |-> None,
                           ret |-> r.ret, panic |-> r.panic], whole)
          /\ stored' = IF r.panic THEN stored
                        ELSE [stored EXCEPT ![k] = None]
    /\ pre' = Pre(arena, len, whole)
    /\ UNCHANGED <<root, trie_iter, yielded>>
    /\ UNCHANGED apart

GetCall(k, whole) ==
    /\ last = NoCall
    /\ last' = Call([op |-> "get", key |-> k, val |-> None,
                     ret |-> get(arena, root, k), panic |-> FALSE], whole)
    /\ pre' = Pre(arena, len, whole)
    /\ UNCHANGED <<arena, root, len, stored, trie_iter, yielded>>
    /\ UNCHANGED apart

GetMutCall(k, w, whole) ==
    /\ last = NoCall
    /\ LET r == get_mut(arena, root, k, w)
       IN /\ arena' = r.arena
          /\ last' = Call([op |-> "get_mut", key |-> k, val |-> w,
                           ret |-> r.ret, panic |-> FALSE], whole)
          \* the caller can write only through a reference it was given
          /\ stored' = IF r.ret # None /\ w # None
                        THEN [stored EXCEPT ![k] = w] ELSE stored
    /\ pre' = Pre(arena, len, whole)
    /\ UNCHANGED <<root, len, trie_iter, yielded>>
    /\ UNCHANGED apart

\* The caller is done with the result of the last call, and with the
\* iterator if the call gave it one.
Drop ==
    /\ last # NoCall
    /\ ~last.panic
    /\ last' = NoCall
    /\ pre' = NoPre
    /\ trie_iter' = NoIter
    /\ yielded' = NotYielded
    /\ UNCHANGED <<arena, root, len, stored>>
    /\ UNCHANGED apart

Writes == {None} \cup {Some(v) : v \in Values}

Insert(k, v) == InsertCall(k, v, TRUE)

Delete(k) == DeleteCall(k, TRUE)

Get(k) == GetCall(k, TRUE)

GetMut(k, w) == GetMutCall(k, w, TRUE)

Next ==
    \/ \E k \in Keys, v \in Values : Insert(k, v)
    \/ \E k \in Keys : Delete(k)
    \/ \E k \in Keys : Get(k)
    \/ \E k \in Keys, w \in Writes : GetMut(k, w)
    \/ Drop

Spec == Init /\ [][Next]_vars

StoreInsert(k, v) == InsertCall(k, v, FALSE)

StoreDelete(k) == DeleteCall(k, FALSE)

StoreGet(k) == GetCall(k, FALSE)

StoreGetMut(k, w) == GetMutCall(k, w, FALSE)

NextStore ==
    \/ \E k \in Keys, v \in Values : StoreInsert(k, v)
    \/ \E k \in Keys : StoreDelete(k)
    \/ \E k \in Keys : StoreGet(k)
    \/ \E k \in Keys, w \in Writes : StoreGetMut(k, w)
    \/ Drop

SpecStore == Init /\ [][NextStore]_vars

----------------------------------------------------------------------------
(* The trie and a caller that iterates over it                             *)
(*                                                                         *)
(* The iterator borrows the trie: from Trie::iter() until the caller drops *)
(* the iterator, the caller calls the iterator and nothing else.           *)

\* An iterator that holds no borrow of the trie: the caller is free to make
\* its next call while the iterator lives.
Iter_unborrowed ==
    /\ last = NoCall
    /\ trie_iter = NoIter
    /\ trie_iter' = Some(iter(arena, root))
    /\ yielded' = [NotYielded EXCEPT !.call = "iter"]
    /\ last' = NoCall
    /\ pre' = Pre(arena, len, TRUE)
    /\ UNCHANGED <<arena, root, len, stored>>
    /\ UNCHANGED apart

\* Trie::iter(&self): the TrieIter it returns holds `trie: &'a Trie` and
\* references to the values, a shared borrow of the trie that lasts until
\* the iterator is dropped.
Iter ==
    /\ last = NoCall
    /\ trie_iter' = Some(iter(arena, root))
    /\ yielded' = [NotYielded EXCEPT !.call = "iter"]
    /\ last' = [NoCall EXCEPT !.op = "iter"]
    /\ pre' = Pre(arena, len, TRUE)
    /\ UNCHANGED <<arena, root, len, stored>>
    /\ UNCHANGED apart

IterNext ==
    /\ trie_iter # NoIter
    /\ LET r == next(trie_iter[1])
       IN /\ trie_iter' = Some(r.iter)
          /\ yielded' = [yielded EXCEPT
                            !.call = "next", !.ret = r.ret, !.hint = <<>>,
                            !.front = IF r.ret = None THEN @
                                      ELSE Append(@, r.ret[1])]
    /\ UNCHANGED <<arena, root, len, stored, last, pre>>
    /\ UNCHANGED apart

IterNextBack ==
    /\ trie_iter # NoIter
    /\ LET r == next_back(trie_iter[1])
       IN /\ trie_iter' = Some(r.iter)
          /\ yielded' = [yielded EXCEPT
                            !.call = "next_back", !.ret = r.ret, !.hint = <<>>,
                            !.back = IF r.ret = None THEN @
                                     ELSE Append(@, r.ret[1])]
    /\ UNCHANGED <<arena, root, len, stored, last, pre>>
    /\ UNCHANGED apart

IterSizeHint ==
    /\ trie_iter # NoIter
    /\ yielded' = [yielded EXCEPT
                      !.call = "size_hint", !.ret = None,
                      !.hint = size_hint(trie_iter[1])]
    /\ UNCHANGED <<arena, root, len, stored, last, pre, trie_iter>>
    /\ UNCHANGED apart

NextIter ==
    \/ \E k \in Keys, v \in Values : StoreInsert(k, v)
    \/ \E k \in Keys : StoreDelete(k)
    \/ \E k \in Keys, w \in Writes : StoreGetMut(k, w)
    \/ Iter
    \/ IterNext
    \/ IterNextBack
    \/ IterSizeHint
    \/ Drop

SpecIter == Init /\ [][NextIter]_vars

----------------------------------------------------------------------------
(* The Box-owned trie and its one caller                                   *)
(*                                                                         *)
(* The caller makes one call at a time and drops the result before the     *)
(* next, as the caller of the arena trie does.  It keeps at most MaxStored *)
(* on the length the trie reports.                                         *)

LibInsert(k, v) ==
    /\ last = NoCall
    /\ lib_len(box_trie) < MaxStored \/ lib_get(box_trie, k) # None
    /\ LET r == lib_insert(box_trie, k, v)
       IN /\ box_trie' = r.trie
          /\ last' = [op |-> "insert", key |-> k, val |-> Some(v),
                      ret |-> r.ret, panic |-> FALSE]
    /\ stored' = [stored EXCEPT ![k] = Some(v)]
    /\ pre' = [NoPre EXCEPT !.len = lib_len(box_trie), !.stored = stored]
    /\ UNCHANGED <<arena, root, len, trie_iter, yielded, enc, lib_ret>>
    /\ UNCHANGED node_vars

LibDelete(k) ==
    /\ last = NoCall
    /\ LET r == lib_delete(box_trie, k)
       IN /\ box_trie' = r.trie
          /\ last' = [op |-> "delete", key |-> k, val |-> None,
                      ret |-> r.ret, panic |-> FALSE]
    /\ stored' = [stored EXCEPT ![k] = None]
    /\ pre' = [NoPre EXCEPT !.len = lib_len(box_trie), !.stored = stored]
    /\ UNCHANGED <<arena, root, len, trie_iter, yielded, enc, lib_ret>>
    /\ UNCHANGED node_vars

LibGet(k) ==
    /\ last = NoCall
    /\ last' = [op |-> "get", key |-> k, val |-> None,
                ret |-> lib_get(box_trie, k), panic |-> FALSE]
    /\ pre' = [NoPre EXCEPT !.len = lib_len(box_trie), !.stored = stored]
    /\ UNCHANGED <<arena, root, len, stored, trie_iter, yielded, enc, box_trie>>
    /\ UNCHANGED <<lib_ret, node_vars>>

LibGetMut(k, w) ==
    /\ last = NoCall
    /\ LET r == lib_get_mut(box_trie, k, w)
       IN /\ box_trie' = r.trie
          /\ last' = [op |-> "get_mut", key |-> k, val |-> w,
                      ret |-> r.ret, panic |-> FALSE]
          /\ stored' = IF r.ret # None /\ w # None
                        THEN [stored EXCEPT ![k] = w] ELSE stored
    /\ pre' = [NoPre EXCEPT !.len = lib_len(box_trie), !.stored = stored]
    /\ UNCHANGED <<arena, root, len, trie_iter, yielded, enc, lib_ret>>
    /\ UNCHANGED node_vars

NextBox ==
    \/ \E k \in Keys, v \in Values : LibInsert(k, v)
    \/ \E k \in Keys : LibDelete(k)
    \/ \E k \in Keys : LibGet(k)
    \/ \E k \in Keys, w \in Writes : LibGetMut(k, w)
    \/ Drop

SpecBox == Init /\ [][NextBox]_vars

----------------------------------------------------------------------------
(* The path encoder on its own                                             *)
(*                                                                         *)
(* A caller holds two keys and builds the path of each.                    *)

\* Bytes at the ends of the range of a u8 and of a nibble, and the two bytes
\* of Bytes, whose nibbles are in opposite order.
PathBytes == {0, 15, 16, 18, 33, 255}

\* Every u8.
AllBytes == 0..255

\* The first key: any single byte, or up to MaxKeyLen bytes of PathBytes.
FirstKeys ==
    {<<x>> : x \in AllBytes} \cup UNION {[1..n -> PathBytes] : n \in 0..MaxKeyLen}

\* The second key: up to MaxKeyLen bytes of PathBytes.
SecondKeys == UNION {[1..n -> PathBytes] : n \in 0..MaxKeyLen}

InitPath ==
    /\ root = arena_new_key(<<>>, <<>>)
    /\ arena = arena_insert(<<>>, arena_new_key(<<>>, <<>>), TrieNode_new)
    /\ len = 0
    /\ stored = NothingStored
    /\ last = NoCall
    /\ pre = NoPre
    /\ trie_iter = NoIter
    /\ yielded = NotYielded
    /\ box_trie = lib_Trie_new
    /\ lib_ret = None
    /\ tnode = NewNodes
    /\ child_iter = NoChildIter
    /\ child_yielded = NoChildYielded
    /\ node_last = NoNodeCall
    /\ \E a \in FirstKeys, b \in SecondKeys : enc = NotEncoded(a, b)

\* TrieKey::build_path of each of the two keys.
BuildPath ==
    /\ enc.pa = None
    /\ enc' = [enc EXCEPT !.pa = Some(build_path(enc.a)),
                          !.pb = Some(build_path(enc.b))]
    /\ UNCHANGED <<arena, root, len, stored, last, pre, trie_iter, yielded,
                   box_trie, lib_ret, node_vars>>

NextPath == BuildPath

SpecPath == InitPath /\ [][NextPath]_vars

----------------------------------------------------------------------------
(* The two tries side by side                                              *)
(*                                                                         *)
(* One caller owns an arena trie and a Box-owned trie, both new, and makes *)
(* every call on both with the same arguments.  `last` holds what the      *)
(* arena trie returned and `lib_ret` what the Box-owned trie returned.     *)
(* The caller counts what it keeps stored on the length the arena trie     *)
(* reports, and records of a call all but the key.  The length the         *)
(* Box-owned trie reports never goes down, and the caller stops storing    *)
(* under new keys when it reaches MaxInserts.                              *)

\* Most times the caller of the two tries stores under a key that holds
\* nothing.
MaxInserts == 2

BothInsert(k, v) ==
    /\ last = NoCall
    /\ \/ len < MaxStored /\ lib_len(box_trie) < MaxInserts
       \/ get(arena, root, k) # None
    /\ LET r == insert(arena, root, len, k, v)
           l == lib_insert(box_trie, k, v)
       IN /\ arena' = r.arena
          /\ len' = r.len
          /\ last' = Call([op |-> "insert", key |-> k, val |-> Some(v),
                           ret |-> r.ret, panic |-> r.panic], FALSE)
          /\ box_trie' = l.trie
          /\ lib_ret' = l.ret
    /\ stored' = [stored EXCEPT ![k] = Some(v)]
    /\ UNCHANGED <<root, pre, trie_iter, yielded, enc>>
    /\ UNCHANGED node_vars

BothDelete(k) ==
    /\ last = NoCall
    /\ LET r == delete(arena, root, len, k)
           l == lib_delete(box_trie, k)
       IN /\ arena' = r.arena
          /\ len' = r.len
          /\ last' = Call([op |-> "delete", key |-> k, val |-> None,
                           ret |-> r.ret, panic |-> r.panic], FALSE)
          /\ box_trie' = l.trie
          /\ lib_ret' = l.ret
    /\ stored' = [stored EXCEPT ![k] = None]
    /\ UNCHANGED <<root, pre, trie_iter, yielded, enc>>
    /\ UNCHANGED node_vars

BothGet(k) ==
    /\ last = NoCall
    /\ last' = Call([op |-> "get", key |-> k, val |-> None,
                     ret |-> get(arena, root, k), panic |-> FALSE], FALSE)
    /\ lib_ret' = lib_get(box_trie, k)
    /\ UNCHANGED <<arena, root, len, stored, pre, trie_iter, yielded, enc,
                   box_trie>>
    /\ UNCHANGED node_vars

\* The caller is done with the two results.
BothDrop ==
    /\ last # NoCall
    /\ ~last.panic
    /\ last' = NoCall
    /\ lib_ret' = None
    /\ UNCHANGED <<arena, root, len, stored, pre, trie_iter, yielded, enc,
                   box_trie>>
    /\ UNCHANGED node_vars

NextBoth ==
    \/ \E k \in Keys, v \in Values : BothInsert(k, v)
    \/ \E k \in Keys : BothDelete(k)
    \/ \E k \in Keys : BothGet(k)
    \/ BothDrop

SpecBoth == Init /\ [][NextBoth]_vars

----------------------------------------------------------------------------
(* The node on its own and its one caller                                  *)
(*                                                                         *)
(* The caller owns one node and makes the same calls on it in the build    *)
(* with the bitmap and in the build without.  It fills child slots with    *)
(* new nodes that hold the number of their slot as their value, asks       *)
(* has_child and has_multiple_children, and takes one child iterator at a  *)
(* time, which borrows the node: child_set needs the node unborrowed.  A   *)
(* panic ends the caller.                                                  *)

\* What the calls on the node leave alone.
trie_vars ==
    <<arena, root, len, stored, last, pre, trie_iter, yielded, enc, box_trie,
      lib_ret>>

\* The child slots of a node that are filled.
Occupied(node) == {i \in 0..(N - 1) : child(node, i) # None}

\* The child the caller puts into slot i: a new node with value i.
NewChild(i, bitmaps) == value_replace(TrieNode_new_build(bitmaps), i).node

\* The account of the children got, after one more call.
Got(y, call, plain_ret, bitmaps_ret) ==
    IF y.calls \in {"none", call}
    THEN [calls |-> call,
          plain |-> IF plain_ret = None THEN y.plain
                    ELSE Append(y.plain, plain_ret[1]),
          bitmaps |-> IF bitmaps_ret = None THEN y.bitmaps
                      ELSE Append(y.bitmaps, bitmaps_ret[1]),
          ended |-> [plain |-> y.ended.plain \/ plain_ret = None,
                     bitmaps |-> y.ended.bitmaps \/ bitmaps_ret = None]]
    ELSE [NoChildYielded EXCEPT !.calls = "mixed"]

NodeChildSet(i) ==
    /\ node_last.panic = "none"
    /\ child_iter = NoChildIter
    /\ Cardinality(Occupied(tnode.plain)) < MaxChildren
       \/ child(tnode.plain, i) # None
    /\ tnode' = [plain |-> child_set_build(tnode.plain, i,
                                           NewChild(i, FALSE), FALSE),
                 bitmaps |-> child_set_build(tnode.bitmaps, i,
                                             NewChild(i, TRUE), TRUE)]
    /\ node_last' = [NoNodeCall EXCEPT !.op = "child_set", !.index = Some(i)]
    /\ UNCHANGED <<child_iter, child_yielded>>
    /\ UNCHANGED trie_vars

NodeHasChild ==
    /\ node_last.panic = "none"
    /\ child_iter = NoChildIter
    /\ node_last' = [NoNodeCall EXCEPT
                       !.op = "has_child",
                       !.ret = [plain |-> has_child_build(tnode.plain, FALSE),
                                bitmaps |-> has_child_build(tnode.bitmaps, TRUE)]]
    /\ UNCHANGED <<tnode, child_iter, child_yielded>>
    /\ UNCHANGED trie_vars

NodeHasMultipleChildren ==
    /\ node_last.panic = "none"
    /\ child_iter = NoChildIter
    /\ node_last' = [NoNodeCall EXCEPT
                       !.op = "has_multiple_children",
                       !.ret = [plain |-> has_multiple_children_build(
                                              tnode.plain, FALSE),
                                bitmaps |-> has_multiple_children_build(
                                                tnode.bitmaps, TRUE)]]
    /\ UNCHANGED <<tnode, child_iter, child_yielded>>
    /\ UNCHANGED trie_vars

\* `(&node).into_iter()`
NodeIntoIter ==
    /\ node_last.panic = "none"
    /\ child_iter = NoChildIter
    /\ child_iter' = [from |-> None, plain |-> into_iter(tnode.plain),
                      bitmaps |-> into_iter(tnode.bitmaps)]
    /\ child_yielded' = NoChildYielded
    /\ node_last' = [NoNodeCall EXCEPT !.op = "into_iter"]
    /\ UNCHANGED tnode
    /\ UNCHANGED trie_vars

NodeChildIterFrom(k) ==
    /\ node_last.panic = "none"
    /\ child_iter = NoChildIter
    /\ child_iter' = [from |-> Some(k), plain |-> child_iter_from(tnode.plain, k),
                      bitmaps |-> child_iter_from(tnode.bitmaps, k)]
    /\ child_yielded' = NoChildYielded
    /\ node_last' = [NoNodeCall EXCEPT !.op = "child_iter_from",
                                       !.index = Some(k)]
    /\ UNCHANGED tnode
    /\ UNCHANGED trie_vars

NodeIterNext ==
    /\ node_last.panic = "none"
    /\ child_iter # NoChildIter
    /\ LET p == child_iter_next(child_iter.plain, tnode.plain, FALSE)
           b == child_iter_next(child_iter.bitmaps, tnode.bitmaps, TRUE)
       IN /\ child_iter' = [child_iter EXCEPT !.plain = p.iter,
                                              !.bitmaps = b.iter]
          /\ child_yielded' = Got(child_yielded, "next", p.ret, b.ret)
          /\ node_last' = [NoNodeCall EXCEPT
                             !.op = "next",
                             !.ret = [plain |-> p.ret, bitmaps |-> b.ret],
                             !.before = child_iter]
    /\ UNCHANGED tnode
    /\ UNCHANGED trie_vars

\* The build without the bitmap traps overflow or does not.
NodeIterNextBack(overflow_checks) ==
    /\ node_last.panic = "none"
    /\ child_iter # NoChildIter
    /\ LET p == child_iter_next_back(child_iter.plain, tnode.plain, FALSE,
                                     overflow_checks)
           b == child_iter_next_back(child_iter.bitmaps, tnode.bitmaps, TRUE,
                                     overflow_checks)
       IN /\ child_iter' = [child_iter EXCEPT !.plain = p.iter,
                                              !.bitmaps = b.iter]
          /\ child_yielded' = Got(child_yielded, "next_back", p.ret, b.ret)
          /\ node_last' = [NoNodeCall EXCEPT
                             !.op = "next_back",
                             !.ret = [plain |-> p.ret, bitmaps |-> b.ret],
                             !.before = child_iter,
                             !.start = p.start,
                             !.panic = p.panic]
    /\ UNCHANGED tnode
    /\ UNCHANGED trie_vars

\* The caller lets the iterator go.
NodeIterDrop ==
    /\ node_last.panic = "none"
    /\ child_iter # NoChildIter
    /\ child_iter' = NoChildIter
    /\ child_yielded' = NoChildYielded
    /\ node_last' = NoNodeCall
    /\ UNCHANGED tnode
    /\ UNCHANGED trie_vars

NextNode ==
    \/ \E i \in 0..(N - 1) : NodeChildSet(i)
    \/ NodeHasChild
    \/ NodeHasMultipleChildren
    \/ NodeIntoIter
    \/ \E k \in 0..(N - 1) : NodeChildIterFrom(k)
    \/ NodeIterNext
    \/ \E overflow_checks \in BOOLEAN : NodeIterNextBack(overflow_checks)
    \/ NodeIterDrop

SpecNode == Init /\ [][NextNode]_vars

----------------------------------------------------------------------------
(* Properties of the arena trie                                            *)

\* The handles in the child slots of a node.
ChildHandles(node) ==
    {o[1] : o \in {node.next[i] : i \in DOMAIN node.next} \ {None}}

\* The handles reachable from the frontier through child links that
\* resolve, added to those seen already.
RECURSIVE ReachableFrom(_, _, _)
ReachableFrom(ar, frontier, seen) ==
    IF frontier = {} THEN seen
    ELSE LET found == (UNION {ChildHandles(ar[f]) : f \in frontier}) \cap DOMAIN ar
         IN ReachableFrom(ar, found \ (seen \cup frontier), seen \cup frontier)

Reachable(ar, rt) == ReachableFrom(ar, {rt} \cap DOMAIN ar, {})

ProperPrefix(p, q) == Len(p) < Len(q) /\ SubSeq(q, 1, Len(p)) = p

\* The node a path leads to, in a store, as an Option of its handle.
NodeAt(ar, rt, path) == get_walk(ar, rt, path, 1)

OldValue(k) == get(pre.arena, root, k)

NewValue(k) == get(arena, root, k)

\* C1: right after insert(k, v) has returned, get(k) returns Some(v).
C1_Roundtrip ==
    last.op = "insert" => ~last.panic /\ NewValue(last.key) = last.val

\* An insert that replaced a different value under a key of full length.
C1_Witness ==
    /\ last.op = "insert"
    /\ Len(last.key) = 2
    /\ last.ret # None
    /\ last.ret # last.val

\* C2: insert on a key that holds v1 returns Some(v1) and leaves len as it
\* was; insert on a key that holds nothing returns None and adds 1 to len.
C2_ReplaceSemantics ==
    last.op = "insert" =>
        /\ last.ret = OldValue(last.key)
        /\ len = pre.len + (IF OldValue(last.key) = None THEN 1 ELSE 0)

\* An insert of an absent key whose terminal node was already there, as an
\* intermediate node of a longer key.
C2_Witness ==
    /\ last.op = "insert"
    /\ last.ret = None
    /\ NodeAt(pre.arena, root, build_path(last.key)) # None
    /\ last.key # <<>>
    /\ len = pre.len + 1

\* C3: delete on a key that holds v returns Some(v), takes 1 from len, and
\* get of that key returns None afterwards.
C3_DeleteStored ==
    (last.op = "delete" /\ OldValue(last.key) # None) =>
        /\ last.ret = OldValue(last.key)
        /\ len = pre.len - 1
        /\ NewValue(last.key) = None

\* A delete that returned the value 2 and left another key stored.
C3_Witness ==
    /\ last.op = "delete"
    /\ last.ret = Some(2)
    /\ pre.len = 2
    /\ len = 1

\* C4: delete on a key that holds no value returns None and leaves len, the
\* set of nodes, every child link and every value as they were.
C4_DeleteAbsent ==
    (last.op = "delete" /\ OldValue(last.key) = None) =>
        /\ last.ret = None
        /\ ~last.panic
        /\ arena = pre.arena
        /\ len = pre.len

\* A delete of a key that holds nothing while its terminal node exists as
\* an intermediate node of a longer key.
C4_Witness ==
    /\ last.op = "delete"
    /\ last.ret = None
    /\ last.key # <<>>
    /\ NodeAt(pre.arena, root, build_path(last.key)) # None
    /\ len > 0

\* C5: len is the number of nodes with a value, each of them is reachable
\* from the root, and is_empty holds exactly when no key has a value.
C5_LenCountsValues ==
    LET valued == {h \in DOMAIN arena : value(arena[h]) # None}
    IN /\ len = Cardinality(valued)
       /\ valued \subseteq Reachable(arena, root)
       /\ is_empty(len) <=> (\A k \in Keys : NewValue(k) = None)

\* A write through get_mut that changed a value while two keys are stored.
C5_Witness ==
    /\ last.op = "get_mut"
    /\ last.ret # None
    /\ last.val # None
    /\ last.val # last.ret
    /\ len = 2

\* C6: a delete that succeeds leaves get(k') as it was for every key k' other
\* than the deleted one, and takes exactly 1 from len.
C6_DeleteNonInterference ==
    (last.op = "delete" /\ last.ret # None) =>
        /\ \A k2 \in Keys \ {last.key} : NewValue(k2) = OldValue(k2)
        /\ len = pre.len - 1

\* A delete that succeeded while a non-empty proper prefix of the key was
\* stored too.
C6_Witness ==
    /\ last.op = "delete"
    /\ last.ret # None
    /\ \E k2 \in Keys \ {<<>>} :
           /\ ProperPrefix(k2, last.key)
           /\ OldValue(k2) # None

\* C7: insert(k, v) leaves get(k') as it was for every key k' other than k;
\* an insert of the zero-length key puts v in the root's value slot.
C7_InsertNonInterference ==
    last.op = "insert" =>
        /\ \A k2 \in Keys \ {last.key} : NewValue(k2) = OldValue(k2)
        /\ last.key = <<>> =>
               /\ root \in DOMAIN arena
               /\ value(arena[root]) = last.val
               /\ NewValue(<<>>) = last.val

\* An insert of the zero-length key into a trie that stores another key.
C7_Witness ==
    /\ last.op = "insert"
    /\ last.key = <<>>
    /\ last.ret = None
    /\ len = 2

\* p is stored, the deleted key extends p, no other stored key extends p.
DeadEndBelow(p) ==
    /\ OldValue(p) # None
    /\ ProperPrefix(build_path(p), build_path(last.key))
    /\ \A k2 \in Keys \ {last.key} :
           OldValue(k2) # None => ~ProperPrefix(build_path(p), build_path(k2))

\* C8: after the delete of a key that was the only stored extension of a
\* stored key p, the node of p has no children and still holds p's value.
C8_StructuralCleanup ==
    (last.op = "delete" /\ last.ret # None) =>
        \A p \in Keys :
            DeadEndBelow(p) =>
                LET n == NodeAt(arena, root, build_path(p))
                IN /\ n # None
                   /\ n[1] \in DOMAIN arena
                   /\ ~has_child(arena[n[1]])
                   /\ value(arena[n[1]]) = OldValue(p)

\* A successful delete below a stored key of one byte.
C8_Witness ==
    /\ last.op = "delete"
    /\ last.ret # None
    /\ \E p \in Keys : Len(p) = 1 /\ DeadEndBelow(p)

\* C9: every node in the store other than the root has a value or a child.
C9_NonRootNodesLive ==
    \A h \in (DOMAIN arena) \ {root} :
        value(arena[h]) # None \/ has_child(arena[h])

\* A delete that removed nodes and left a key stored.
C9_Witness ==
    /\ last.op = "delete"
    /\ last.ret # None
    /\ Cardinality(DOMAIN arena) < pre.nodes
    /\ len = 1

\* C10: every node in the store is reachable from the root, and every child
\* slot that is filled holds the handle of a node in the store.
C10_NoOrphansNoDangling ==
    /\ (DOMAIN arena) \subseteq Reachable(arena, root)
    /\ \A h \in DOMAIN arena : ChildHandles(arena[h]) \subseteq DOMAIN arena

\* A delete that removed a chain of four nodes and left other nodes than the
\* root in the store.
C10_Witness ==
    /\ last.op = "delete"
    /\ last.ret # None
    /\ pre.nodes - Cardinality(DOMAIN arena) = 4
    /\ Cardinality(DOMAIN arena) > 1

\* C11: no delete removes the root from the store, and whenever the length
\* is 0 the store is the store of a new trie: it holds the root alone, and
\* the root has no value and no child.  The trie is then in the state
\* Trie::new() leaves it in, so that it takes further inserts as a new trie
\* does.
C11_EmptyTrieIsNew ==
    /\ root \in DOMAIN arena
    /\ len = 0 =>
          /\ DOMAIN arena = {root}
          /\ value(arena[root]) = None
          /\ ~has_child(arena[root])
          /\ arena = arena_insert(<<>>, arena_new_key(<<>>, <<>>), TrieNode_new)

\* A delete of the last stored key, which freed the chain of four nodes that
\* led to it.
C11_Witness ==
    /\ last.op = "delete"
    /\ last.ret # None
    /\ pre.len = 1
    /\ len = 0
    /\ pre.nodes = 5
    /\ Cardinality(DOMAIN arena) = 1

\* C19: get(k) and get_mut(k) return a value exactly when the caller has
\* stored k and not deleted it, and then the value stored last; they return
\* None when a child slot on the path of k is empty.  Neither changes the
\* length, the set of nodes or a child link; get changes no value, and
\* get_mut changes none unless the caller writes through the reference it
\* returns, and then only the value of k.
C19_LookupFrame ==
    last.op \in {"get", "get_mut"} =>
        LET terminal == NodeAt(pre.arena, root, build_path(last.key))
            written == last.op = "get_mut" /\ last.val # None /\ last.ret # None
        IN /\ last.ret = pre.stored[last.key]
           /\ terminal = None => last.ret = None
           /\ len = pre.len
           /\ DOMAIN arena = DOMAIN pre.arena
           /\ ~written => arena = pre.arena
           /\ written =>
                 /\ terminal # None
                 /\ \A h \in DOMAIN arena :
                       /\ arena[h].next = pre.arena[h].next
                       /\ h # terminal[1] => arena[h].value = pre.arena[h].value

\* A get of a key that is not stored, on whose path a child slot is empty
\* below a node that holds the value of a proper prefix of the key.
C19_Witness ==
    /\ last.op = "get"
    /\ last.ret = None
    /\ NodeAt(pre.arena, root, build_path(last.key)) = None
    /\ \E k \in Keys : ProperPrefix(k, last.key) /\ Len(k) > 0 /\ OldValue(k) # None

----------------------------------------------------------------------------
(* Properties of the iterator                                              *)

\* p comes before q in lexicographic order: p is a proper prefix of q, or p
\* is smaller at the first position where they differ.
LexLess(p, q) ==
    \E i \in 1..(Len(p) + 1) :
        /\ i <= Len(q)
        /\ \A j \in 1..(i - 1) : p[j] = q[j]
        /\ i = Len(p) + 1 \/ p[i] < q[i]

\* The items of the snapshot the iterator holds.
Items == trie_iter[1].items

\* The pairs <<build_path(k), v>> of the keys k for which get returns v.
StoredPairs ==
    {<<build_path(k), get(arena, root, k)[1]>> :
        k \in {kk \in Keys : get(arena, root, kk) # None}}

\* The iterator has answered None to the last call.
Finished == yielded.call \in {"next", "next_back"} /\ yielded.ret = None

\* C12: an iterator consumed with next() alone yields its items in strictly
\* increasing lexicographic order of their paths, a proper prefix before
\* its extensions; these are the items of the snapshot, in order.  An
\* iterator consumed with next_back() alone yields the same sequence from
\* its end backwards.
C12_IterationOrder ==
    trie_iter # NoIter =>
        /\ \A i, j \in 1..Len(Items) :
              i < j => LexLess(Items[i][1], Items[j][1])
        /\ yielded.back = <<>> =>
              /\ Len(yielded.front) <= Len(Items)
              /\ \A i \in 1..Len(yielded.front) : yielded.front[i] = Items[i]
              /\ \A i, j \in 1..Len(yielded.front) :
                    i < j => LexLess(yielded.front[i][1], yielded.front[j][1])
              /\ Finished => Len(yielded.front) = Len(Items)
        /\ yielded.front = <<>> =>
              /\ Len(yielded.back) <= Len(Items)
              /\ \A i \in 1..Len(yielded.back) :
                    yielded.back[i] = Items[Len(Items) + 1 - i]
              /\ \A i, j \in 1..Len(yielded.back) :
                    i < j => LexLess(yielded.back[j][1], yielded.back[i][1])
              /\ Finished => Len(yielded.back) = Len(Items)

\* next() alone has yielded a key and then a key it is a proper prefix of,
\* and then None.
C12_Witness ==
    /\ trie_iter # NoIter
    /\ yielded.call = "next"
    /\ yielded.ret = None
    /\ yielded.back = <<>>
    /\ Len(yielded.front) = 2
    /\ ProperPrefix(yielded.front[1][1], yielded.front[2][1])

\* C13: the snapshot of a new iterator has exactly len() items, one for each
\* key k that get finds, namely <<build_path(k), v>> for the v that get(k)
\* returns; these are the keys the caller has stored and not deleted, with
\* the values it stored last.  The zero-length key, if stored, has the empty
\* path.  An iterator that has answered None has yielded these items and no
\* others.  (Stated of the iterator when it is new and when it has answered
\* None.)
C13_IterYieldsStoredPairs ==
    (trie_iter # NoIter /\ (yielded.call = "iter" \/ Finished)) =>
        LET pairs == StoredPairs
        IN /\ Len(Items) = len
           /\ Cardinality(pairs) = len
           /\ {Items[i] : i \in 1..Len(Items)} = pairs
           /\ pairs = {<<build_path(k), stored[k][1]>> :
                          k \in {kk \in Keys : stored[kk] # None}}
           /\ get(arena, root, <<>>) # None =>
                 \E i \in 1..Len(Items) :
                     Items[i] = <<<<>>, get(arena, root, <<>>)[1]>>
           /\ Finished =>
                 /\ Len(yielded.front) + Len(yielded.back) = len
                 /\ {yielded.front[i] : i \in 1..Len(yielded.front)}
                       \cup {yielded.back[i] : i \in 1..Len(yielded.back)} = pairs

\* An iterator over the zero-length key and a key of two bytes has yielded
\* both and then None.
C13_Witness ==
    /\ trie_iter # NoIter
    /\ Finished
    /\ len = 2
    /\ get(arena, root, <<>>) # None
    /\ \E k \in Keys : Len(k) = 2 /\ get(arena, root, k) # None
    /\ Len(yielded.front) + Len(yielded.back) = 2

\* C14: size_hint() returns (r, Some(r)), where r is the number of items of
\* the snapshot that next() and next_back() have not yielded yet; r is 0
\* when the iterator has answered None and when the trie is empty.
C14_SizeHintExact ==
    (trie_iter # NoIter /\ yielded.call = "size_hint") =>
        LET r == Len(Items) - Len(yielded.front) - Len(yielded.back)
        IN /\ r >= 0
           /\ yielded.hint = <<r, Some(r)>>
           /\ len = 0 => yielded.hint = <<0, Some(0)>>
           /\ exhausted(trie_iter[1]) <=> r = 0

\* size_hint() after next_back() has yielded one of two items.
C14_Witness ==
    /\ trie_iter # NoIter
    /\ yielded.call = "size_hint"
    /\ Len(Items) = 2
    /\ Len(yielded.back) = 1
    /\ yielded.front = <<>>
    /\ yielded.hint = <<1, Some(1)>>

\* C15: under any interleaving of next() and next_back(), what next() has
\* yielded is a prefix of the snapshot, what next_back() has yielded is a
\* suffix of it backwards, and the two do not overlap, so that no item is
\* yielded twice; a call returns None only when every item has been
\* yielded, and every call from then on returns None.
C15_EachItemOnce ==
    trie_iter # NoIter =>
        /\ Len(yielded.front) + Len(yielded.back) <= Len(Items)
        /\ \A i \in 1..Len(yielded.front) : yielded.front[i] = Items[i]
        /\ \A i \in 1..Len(yielded.back) :
              yielded.back[i] = Items[Len(Items) + 1 - i]
        /\ Finished => Len(yielded.front) + Len(yielded.back) = Len(Items)
        /\ Len(yielded.front) + Len(yielded.back) = Len(Items) =>
              /\ next(trie_iter[1]).ret = None
              /\ next_back(trie_iter[1]).ret = None
        /\ Len(yielded.front) + Len(yielded.back) < Len(Items) =>
              /\ next(trie_iter[1]).ret # None
              /\ next_back(trie_iter[1]).ret # None

\* next_back() has yielded both items, down to index 0, and next() has then
\* returned None.
C15_Witness ==
    /\ trie_iter # NoIter
    /\ yielded.call = "next"
    /\ yielded.ret = None
    /\ Len(yielded.back) = 2
    /\ yielded.front = <<>>

----------------------------------------------------------------------------
(* Properties of the path encoder                                          *)

\* C16: the path of a key of n bytes has 2n entries, each in 0..15; entry 2i
\* is the high nibble of byte i and entry 2i + 1 its low nibble (counted from
\* 0), that is, byte i = 16 * entry 2i + entry 2i + 1.  The path of the empty
\* key is empty.
C16_NibblePath ==
    enc.pa # None =>
        LET key == enc.a
            path == enc.pa[1]
        IN /\ Len(path) = 2 * Len(key)
           /\ \A j \in 1..Len(path) : path[j] \in 0..15
           /\ \A i \in 1..Len(key) : key[i] = 16 * path[2 * i - 1] + path[2 * i]
           /\ key = <<>> => path = <<>>

\* The path of a key of two bytes, the first of them above 0x7F.
C16_Witness ==
    /\ enc.pa # None
    /\ Len(enc.a) = 2
    /\ enc.a[1] = 255
    /\ enc.a[2] = 18
    /\ enc.pa[1] = <<15, 15, 1, 2>>

\* C17: two keys have the same path only if they are the same key, and the
\* path of a is lexicographically before the path of b exactly when a is
\* before b as a sequence of unsigned bytes.
C17_InjectiveOrderPreserving ==
    enc.pa # None =>
        /\ enc.pa = enc.pb => enc.a = enc.b
        /\ LexLess(enc.pa[1], enc.pb[1]) <=> LexLess(enc.a, enc.b)

\* Two keys whose first bytes are in one order and the low nibbles of these
\* bytes in the other.
C17_Witness ==
    /\ enc.pa # None
    /\ enc.a # <<>>
    /\ enc.b # <<>>
    /\ enc.a[1] < enc.b[1]
    /\ enc.a[1] % 16 > enc.b[1] % 16
    /\ LexLess(enc.pa[1], enc.pb[1])

----------------------------------------------------------------------------
(* Properties of the Box-owned trie                                        *)

\* The keys for which get of the Box-owned trie returns a value.
LibStoredKeys == {k \in Keys : lib_get(box_trie, k) # None}

\* C20: a delete of a stored key takes 1 off the length; len() is the number
\* of keys for which get returns a value, and is_empty() is true exactly
\* when there is no such key.
C20_LibLenCountsStoredKeys ==
    /\ (last.op = "delete" /\ last.ret # None) =>
          lib_len(box_trie) = pre.len - 1
    /\ lib_len(box_trie) = Cardinality(LibStoredKeys)
    /\ lib_is_empty(box_trie) <=> LibStoredKeys = {}

\* A delete of the only stored key has returned its value.
C20_Witness ==
    /\ last.op = "delete"
    /\ last.ret # None
    /\ pre.len = 1
    /\ LibStoredKeys = {}


----------------------------------------------------------------------------
(* Properties of the arena trie: structure                                 *)

\* p is a prefix of q, q itself included.
Prefix(p, q) == Len(p) <= Len(q) /\ SubSeq(q, 1, Len(p)) = p

\* The handles in the store before the last call that are not in the store
\* after it, and the other way round.
Removed == (DOMAIN pre.arena) \ (DOMAIN arena)

Added == (DOMAIN arena) \ (DOMAIN pre.arena)

\* C22: a successful delete(k) removes exactly the nodes at the non-empty
\* prefixes of the path of k (the terminal included) that are a prefix of
\* the path of no other stored key.  They are the nodes below the anchor:
\* the deepest node strictly above the terminal that has a value or more
\* than one child, or the root if there is none; the anchor's slot towards
\* the terminal is emptied.  Every node removed other than the terminal had
\* no value and exactly one child.
C22_DeleteRemovesDeadChain ==
    (last.op = "delete" /\ last.ret # None) =>
        LET path == build_path(last.key)
            n == Len(path)
            nodes == [i \in 0..n |-> NodeAt(pre.arena, root, SubSeq(path, 1, i))[1]]
            node(i) == nodes[i]
            others == {build_path(k) :
                          k \in {kk \in Keys \ {last.key} : pre.stored[kk] # None}}
            covered(i) == \E q \in others : Prefix(SubSeq(path, 1, i), q)
            keep(i) == \/ value(pre.arena[node(i)]) # None
                       \/ Cardinality(ChildHandles(pre.arena[node(i)])) > 1
            kept == {0} \cup {i \in 1..(n - 1) : keep(i)}
            anchor == CHOOSE a \in kept : \A i \in kept : i <= a
        IN /\ Removed = {node(i) : i \in {j \in 1..n : ~covered(j)}}
           /\ Removed # {} =>
                 /\ Removed = {node(i) : i \in (anchor + 1)..n}
                 /\ child_key(pre.arena[node(anchor)], path[anchor + 1])
                       = Some(node(anchor + 1))
                 /\ child_key(arena[node(anchor)], path[anchor + 1]) = None
           /\ \A i \in 1..(n - 1) :
                 node(i) \in Removed =>
                    /\ value(pre.arena[node(i)]) = None
                    /\ Cardinality(ChildHandles(pre.arena[node(i)])) = 1

\* A delete that cut the chain of its key at a node below the root, a node
\* that holds the value of another key, and removed the two nodes below it.
C22_Witness ==
    /\ last.op = "delete"
    /\ last.ret # None
    /\ Cardinality(Removed) = 2
    /\ Len(last.key) = 2
    /\ NewValue(SubSeq(last.key, 1, 1)) # None


\* C23: a successful delete(k) whose terminal node has a child empties the
\* value slot of that node and takes 1 off len; the store is otherwise
\* as it was, node for node and link for link, and every key that extends k
\* has the value it had.
C23_DeleteInternalTerminal ==
    (last.op = "delete" /\ last.ret # None) =>
        LET terminal == NodeAt(pre.arena, root, build_path(last.key))[1]
        IN has_child(pre.arena[terminal]) =>
              /\ arena = [pre.arena EXCEPT ![terminal].value = None]
              /\ len = pre.len - 1
              /\ Removed = {}
              /\ \A k \in Keys :
                    ProperPrefix(last.key, k) => NewValue(k) = pre.stored[k]

\* A delete of a key of one byte while a key that extends it is stored.
C23_Witness ==
    /\ last.op = "delete"
    /\ last.ret # None
    /\ Len(last.key) = 1
    /\ has_child(pre.arena[NodeAt(pre.arena, root, build_path(last.key))[1]])
    /\ \E k \in Keys : ProperPrefix(last.key, k) /\ NewValue(k) # None


\* C24: insert(k, v) adds one node for each nibble of the path of k beyond
\* the longest prefix of the path that has a node already, and none when the
\* whole path has nodes; it removes no node, and of the links of the nodes
\* that were there it changes one at most, the empty slot of the deepest
\* node found, which it fills with the first new node.  Neither delete nor
\* get nor get_mut adds a node.
C24_InsertAddsMissingNodes ==
    /\ (last.op \in {"delete", "get", "get_mut"}) => Added = {}
    /\ (last.op = "insert" /\ ~last.panic) =>
          LET path == build_path(last.key)
              n == Len(path)
              there == {i \in 0..n : NodeAt(pre.arena, root, SubSeq(path, 1, i)) # None}
              m == CHOOSE a \in there : \A i \in there : i <= a
              now == [i \in 0..n |-> NodeAt(arena, root, SubSeq(path, 1, i))]
          IN /\ Removed = {}
             /\ Cardinality(Added) = n - m
             /\ \A i \in 0..n : now[i] # None
             /\ Added = {now[i][1] : i \in (m + 1)..n}
             /\ \A h \in DOMAIN pre.arena, slot \in 0..(N - 1) :
                   arena[h].next[slot] # pre.arena[h].next[slot] =>
                      /\ h = now[m][1]
                      /\ m < n
                      /\ slot = path[m + 1]
                      /\ pre.arena[h].next[slot] = None
                      /\ arena[h].next[slot] = now[m + 1]

\* An insert of a key of two bytes that found the nodes of its first byte
\* and made the two nodes of its second.
C24_Witness ==
    /\ last.op = "insert"
    /\ Len(last.key) = 2
    /\ Cardinality(Added) = 2
    /\ pre.nodes = 3


\* The nibble paths that stored keys pass through: every prefix, the empty
\* one and the whole path included, of the path of a key the caller has
\* stored and not deleted.
StoredPrefixes ==
    UNION {{SubSeq(build_path(k), 1, i) : i \in 0..(2 * Len(k))} :
              k \in {kk \in Keys : stored[kk] # None}}

\* C25: there is a node at a nibble path exactly when the path is empty or a
\* prefix of the path of a stored key: each such path has its node, and the
\* store holds these nodes and no others, one for each path.  The shape of
\* the tree and the number of nodes are thus given by the keys stored,
\* whatever calls led there.
C25_ShapeFollowsKeys ==
    LET paths == {<<>>} \cup StoredPrefixes
    IN /\ \A p \in paths : NodeAt(arena, root, p) # None
       /\ DOMAIN arena = {NodeAt(arena, root, p)[1] : p \in paths}
       /\ Cardinality(DOMAIN arena) = Cardinality(paths)

\* A delete has removed the four nodes of one key of two bytes and left the
\* root and the four nodes of another.
C25_Witness ==
    /\ last.op = "delete"
    /\ last.ret # None
    /\ pre.nodes = 9
    /\ Cardinality(DOMAIN arena) = 5
    /\ len = 1


\* The filled child slots of the store, as pairs of a handle and an index.
Links ==
    UNION {{<<h, i>> : i \in {j \in 0..(N - 1) : child_key(arena[h], j) # None}} :
              h \in DOMAIN arena}

\* C26: the child links form a tree rooted at the root.  No child slot holds
\* the root's handle; every other node of the store is held by exactly one
\* child slot (the filled slots hold these nodes and no others, and there
\* are as many filled slots as such nodes); every node is reached from the
\* root.  A walk along child links from the root therefore meets no node
\* twice: a node met twice would be held by two slots, or be the root.
C26_LinksFormTree ==
    /\ UNION {ChildHandles(arena[h]) : h \in DOMAIN arena} = (DOMAIN arena) \ {root}
    /\ Cardinality(Links) = Cardinality(DOMAIN arena) - 1
    /\ (DOMAIN arena) \subseteq Reachable(arena, root)

\* A store of nine nodes, two chains of four below the root, right after the
\* insert that made the second chain.
C26_Witness ==
    /\ last.op = "insert"
    /\ pre.nodes = 5
    /\ Cardinality(DOMAIN arena) = 9
    /\ Cardinality(Links) = 8


\* The node at which the cleanup of the last delete started: the removed
\* node that was the child of no removed node.
CleanupStart ==
    CHOOSE h \in Removed : \A g \in Removed : h \notin ChildHandles(pre.arena[g])

\* C27: the cleanup that a delete runs ends, and removes the subtree below
\* its start node: its work list names every node reached from the start
\* node through child links once and no other node, the store afterwards
\* lacks exactly these nodes, and the nodes that stay are the nodes that
\* were there, by handle.
C27_CleanupRemovesSubtree ==
    (last.op = "delete" /\ last.ret # None /\ Removed # {}) =>
        LET start == CleanupStart
            subtree == Reachable(pre.arena, start)
            to_remove == collect_to_remove(pre.arena, <<start>>, <<>>)
        IN /\ Len(to_remove) = Cardinality(subtree)
           /\ {to_remove[i] : i \in 1..Len(to_remove)} = subtree
           /\ DOMAIN cleanup_unreachable_nodes(pre.arena, start)
                 = (DOMAIN pre.arena) \ subtree
           /\ Removed = subtree
           /\ Added = {}

\* A delete whose cleanup removed a chain of four nodes while another key
\* stayed.
C27_Witness ==
    /\ last.op = "delete"
    /\ last.ret # None
    /\ Cardinality(Removed) = 4
    /\ len = 1


\* C28: delete changes the trie and returns a value, or does neither.  It
\* returns Some(v) exactly when it took 1 off len, v being the value stored
\* under the key; when it returns None the store and len are as they were,
\* so none of the lookups that follow the taking of the value has failed.
C28_DeleteAllOrNothing ==
    (last.op = "delete" /\ ~last.panic) =>
        /\ last.ret # None <=> len = pre.len - 1
        /\ last.ret # None => last.ret = pre.stored[last.key]
        /\ last.ret = None =>
              /\ len = pre.len
              /\ arena = pre.arena

\* A delete that took the value of one of two keys, cut the chain below an
\* anchor and returned the value.
C28_Witness ==
    /\ last.op = "delete"
    /\ last.ret # None
    /\ pre.len = 2
    /\ len = 1
    /\ Removed # {}
    /\ Cardinality(DOMAIN arena) = pre.nodes - Cardinality(Removed)


\* C29: no call ends in a panic: every store lookup that insert unwraps
\* finds its node, and delete takes 1 off len only when len is above 0.
C29_NoPanic ==
    /\ ~last.panic
    /\ (last.op = "delete" /\ last.ret # None) => pre.len > 0
    /\ (last.op = "insert") => Cardinality(DOMAIN arena) >= pre.nodes

\* An insert of a new key that walked a chain of existing nodes down to its
\* terminal and made no node.
C29_Witness ==
    /\ last.op = "insert"
    /\ last.ret = None
    /\ ~last.panic
    /\ pre.nodes = 5
    /\ Cardinality(DOMAIN arena) = 5
    /\ len = 2


\* C30: get_mut(k) returns what get(k) returned before the call, Some
\* exactly when get(k) did.  When the caller writes a value through the
\* reference, get(k) returns that value afterwards; len, the set of nodes,
\* every child link and the value of every other key are as they were.
C30_GetMutWritesOneValue ==
    last.op = "get_mut" =>
        /\ last.ret = OldValue(last.key)
        /\ last.ret # None <=> OldValue(last.key) # None
        /\ (last.ret # None /\ last.val # None) =>
              /\ NewValue(last.key) = last.val
              /\ len = pre.len
              /\ DOMAIN arena = DOMAIN pre.arena
              /\ \A h \in DOMAIN arena : arena[h].next = pre.arena[h].next
              /\ \A k \in Keys \ {last.key} : NewValue(k) = OldValue(k)
        /\ (last.ret = None \/ last.val = None) =>
              NewValue(last.key) = OldValue(last.key)

\* The caller has put another value in the place of the value of one of two
\* stored keys.
C30_Witness ==
    /\ last.op = "get_mut"
    /\ last.ret # None
    /\ last.val # None
    /\ last.val # last.ret
    /\ NewValue(last.key) = last.val
    /\ len = 2

----------------------------------------------------------------------------
(* The two tries, call by call                                             *)

\* C31: driven from new by the same insert, get and delete calls, the
\* Box-owned trie returns from every call what the arena trie returns from
\* it, and neither panics.
C31_SameResults ==
    /\ ~last.panic
    /\ last.op \in {"insert", "get", "delete"} => lib_ret = last.ret

\* A delete has just returned a value from both tries, after which the
\* arena trie has given up nodes that the Box-owned trie keeps.
C31_Witness ==
    /\ last.op = "delete"
    /\ last.ret # None
    /\ lib_ret = last.ret
    /\ Cardinality(DOMAIN arena) = 1
    /\ has_child(box_trie.root)

----------------------------------------------------------------------------
(* The node on its own                                                     *)

\* C32: whatever child slots are filled, has_child() is true exactly when
\* at least one is and has_multiple_children() exactly when at least two
\* are, in the build with the bitmap and in the build without.
C32_ChildCounts ==
    /\ node_last.op = "has_child" =>
           /\ node_last.ret.plain = (Cardinality(Occupied(tnode.plain)) >= 1)
           /\ node_last.ret.bitmaps = (Cardinality(Occupied(tnode.bitmaps)) >= 1)
    /\ node_last.op = "has_multiple_children" =>
           /\ node_last.ret.plain = (Cardinality(Occupied(tnode.plain)) >= 2)
           /\ node_last.ret.bitmaps = (Cardinality(Occupied(tnode.bitmaps)) >= 2)

\* has_multiple_children() has just said yes, in both builds, of a node
\* with two children.
C32_Witness ==
    /\ node_last.op = "has_multiple_children"
    /\ node_last.ret.plain
    /\ node_last.ret.bitmaps
    /\ Cardinality(Occupied(tnode.plain)) = 2

\* What a call of the iterator returned, told by the value the child
\* holds, which is the slot the caller put it in.
Slot(ret) == IF ret = None THEN None ELSE value(ret[1])

\* C33: in the build with the bitmap, bit i of child_bits is set exactly
\* when slot i is filled, and has_child, has_multiple_children, next and
\* next_back return in it what they return in the build without the bitmap,
\* whatever calls came before.
C33_BitmapBuildAgrees ==
    /\ tnode.bitmaps.child_bits = Occupied(tnode.bitmaps)
    /\ Occupied(tnode.bitmaps) = Occupied(tnode.plain)
    /\ node_last.op \in {"has_child", "has_multiple_children"} =>
           node_last.ret.bitmaps = node_last.ret.plain
    /\ node_last.op \in {"next", "next_back"} =>
           /\ node_last.panic = "none"
           /\ Slot(node_last.ret.bitmaps) = Slot(node_last.ret.plain)

\* next_back() has just been called on a new iterator over a node whose
\* slot 0 is filled, and the build with the bitmap has given that child.
C33_Witness ==
    /\ node_last.op = "next_back"
    /\ node_last.before.bitmaps = into_iter(tnode.bitmaps)
    /\ Slot(node_last.ret.bitmaps) = Some(0)
    /\ tnode.bitmaps.child_bits = {0}

\* The slots of S from the lowest up.
SlotsUp(S) ==
    [j \in 1..Cardinality(S) |->
        CHOOSE s \in S : Cardinality({t \in S : t < s}) = j - 1]

\* The slots of S from the highest down.
SlotsDown(S) ==
    [j \in 1..Cardinality(S) |->
        CHOOSE s \in S : Cardinality({t \in S : t > s}) = j - 1]

\* The children got so far are those in the first slots of `order`, one
\* for one, and a None has come only after the last of them.
GotInOrder(node, got, ended, order) ==
    /\ Len(got) <= Len(order)
    /\ \A j \in 1..Len(got) : Some(got[j]) = child(node, order[j])
    /\ ended => Len(got) = Len(order)

\* C34: a new iterator over a node that is called with next() only gives
\* each child of the node once, from the lowest filled slot up (slot 0 with
\* the rest), and None after the last; in both builds.
C34_ForwardAllAscending ==
    (child_iter # NoChildIter /\ child_iter.from = None
        /\ child_yielded.calls = "next") =>
        /\ GotInOrder(tnode.plain, child_yielded.plain,
                      child_yielded.ended.plain,
                      SlotsUp(Occupied(tnode.plain)))
        /\ GotInOrder(tnode.bitmaps, child_yielded.bitmaps,
                      child_yielded.ended.bitmaps,
                      SlotsUp(Occupied(tnode.bitmaps)))

\* A new iterator over a node with slot 0 and one more slot filled has
\* given both children and then None, called with next() only.
C34_Witness ==
    /\ child_iter # NoChildIter
    /\ child_iter.from = None
    /\ child_yielded.calls = "next"
    /\ child_yielded.ended.plain
    /\ child_yielded.ended.bitmaps
    /\ Len(child_yielded.plain) = 2
    /\ Len(child_yielded.bitmaps) = 2
    /\ 0 \in Occupied(tnode.plain)

\* C35: a new iterator over a node that is called with next_back() only
\* gives each child of the node once, from the highest filled slot down to
\* the lowest (slot 0 with the rest), and None after the last; in both
\* builds.
C35_ReverseAllDescending ==
    (child_iter # NoChildIter /\ child_iter.from = None
        /\ child_yielded.calls = "next_back") =>
        /\ node_last.panic = "none"
        /\ GotInOrder(tnode.plain, child_yielded.plain,
                      child_yielded.ended.plain,
                      SlotsDown(Occupied(tnode.plain)))
        /\ GotInOrder(tnode.bitmaps, child_yielded.bitmaps,
                      child_yielded.ended.bitmaps,
                      SlotsDown(Occupied(tnode.bitmaps)))

\* A new iterator over a node with slot 0 and one more slot filled has been
\* called with next_back() only until None came; the build with the bitmap
\* has given both children, the other build one.
C35_Witness ==
    /\ child_iter # NoChildIter
    /\ child_iter.from = None
    /\ child_yielded.calls = "next_back"
    /\ child_yielded.ended.plain
    /\ child_yielded.ended.bitmaps
    /\ 0 \in Occupied(tnode.plain)
    /\ Len(child_yielded.bitmaps) = 2
    /\ Len(child_yielded.plain) = 1

\* The lowest slot of S, if S has one.
Lowest(S) == IF S = {} THEN None ELSE Some(CHOOSE s \in S : \A t \in S : s <= t)

\* The highest slot of S, if S has one.
Highest(S) == IF S = {} THEN None ELSE Some(CHOOSE s \in S : \A t \in S : t <= s)

\* One build's share of C36: `before` and `after` are its iterator around
\* the last call and `ret` what the call returned.
CursorStep(node, before, after, ret) ==
    /\ (node_last.op = "next" /\ before.moved) =>
           Slot(ret) = Lowest({s \in Occupied(node) : s > before.index})
    /\ (node_last.op = "next_back" /\ before.moved) =>
           Slot(ret) = Highest({s \in Occupied(node) : s < before.index})
    /\ ret = None => after = before

\* C36: the iterator is one cursor.  After a call has given the child of
\* slot a, next() gives the child of the lowest filled slot above a and
\* next_back() the child of the highest filled slot below a (slot 0 with
\* the rest), each None if there is no such slot; a call that returns None
\* leaves the cursor where it was, and no call panics; in both builds.
C36_SingleCursor ==
    node_last.op \in {"next", "next_back"} =>
        /\ node_last.panic = "none"
        /\ CursorStep(tnode.plain, node_last.before.plain, child_iter.plain,
                      node_last.ret.plain)
        /\ CursorStep(tnode.bitmaps, node_last.before.bitmaps,
                      child_iter.bitmaps, node_last.ret.bitmaps)

\* next_back() has just been called with the cursor of both builds on a
\* slot above 0, slot 0 filled and no filled slot between: the build with
\* the bitmap has given the child of slot 0, the other build None.
C36_Witness ==
    /\ node_last.op = "next_back"
    /\ node_last.before.plain.moved
    /\ node_last.before.plain = node_last.before.bitmaps
    /\ node_last.before.plain.index > 0
    /\ Slot(node_last.ret.bitmaps) = Some(0)
    /\ node_last.ret.plain = None
    /\ node_last.panic = "none"

\* C37: the iterator child_iter_from(k) gives, k being any slot, called
\* with next() only the children of the filled slots above k from the lowest
\* up and no other, and called with next_back() only the children of the
\* filled slots below k from the highest down and no other; in both builds
\* and without a panic.
C37_FromIndexBothWays ==
    (child_iter # NoChildIter /\ child_iter.from # None) =>
        LET k == child_iter.from[1]
            above == {s \in Occupied(tnode.plain) : s > k}
            below == {s \in Occupied(tnode.plain) : s < k}
        IN /\ node_last.panic = "none"
           /\ child_yielded.calls = "next" =>
                  /\ GotInOrder(tnode.plain, child_yielded.plain,
                                child_yielded.ended.plain, SlotsUp(above))
                  /\ GotInOrder(tnode.bitmaps, child_yielded.bitmaps,
                                child_yielded.ended.bitmaps, SlotsUp(above))
           /\ child_yielded.calls = "next_back" =>
                  /\ GotInOrder(tnode.plain, child_yielded.plain,
                                child_yielded.ended.plain, SlotsDown(below))
                  /\ GotInOrder(tnode.bitmaps, child_yielded.bitmaps,
                                child_yielded.ended.bitmaps, SlotsDown(below))

\* child_iter_from(0) over a node whose slot 0 is filled has been called
\* with next() once and has given, in both builds, the child of slot 0.
C37_Witness ==
    /\ child_iter # NoChildIter
    /\ child_iter.from = Some(0)
    /\ child_yielded.calls = "next"
    /\ Len(child_yielded.plain) = 1
    /\ Len(child_yielded.bitmaps) = 1
    /\ value(child_yielded.plain[1]) = Some(0)
    /\ value(child_yielded.bitmaps[1]) = Some(0)

\* C38: in the build without the bitmap, whatever slots are filled and
\* whatever next() and next_back() calls came before, next_back() never
\* computes `self.index - 1` from index 0, the index it starts its loop at
\* is one of 0..N-1, and it reads no slot outside the array.
C38_NextBackIndexInRange ==
    node_last.op = "next_back" =>
        /\ ~(node_last.before.plain.moved /\ node_last.before.plain.index = 0)
        /\ node_last.start # None
        /\ node_last.start[1] \in 0..(N - 1)
        /\ node_last.panic = "none"

\* next_back() has just been called after next() gave the child of slot 0,
\* in a build that does not trap overflow: the loop began at the wrapped
\* index and the read of that slot panicked.
C38_Witness ==
    /\ node_last.op = "next_back"
    /\ node_last.before.plain = [moved |-> TRUE, index |-> 0]
    /\ node_last.start = Some(usize_wrapping_sub(0, 1))
    /\ node_last.panic = "index out of bounds"

====
